---- MODULE Spec2Model ----
(***************************************************************************)
(* Model of the newsletter repository's content-discovery and resilient    *)
(* extraction code:                                                        *)
(*   scripts/utils/ai.js          requestStructured (retry around a model  *)
(*                                call, JSON extraction, zod validation)   *)
(*   scripts/1-find-blog-posts.js sitemap expansion, findMatches, the      *)
(*                                homepage fallback and the site loop      *)
(* Strings the code inspects character by character (URLs, patterns) are   *)
(* sequences of one-character strings.                                     *)
(***************************************************************************)
EXTENDS Integers, Sequences, FiniteSets, TLC

VARIABLES
    \* ---- requestStructured (scripts/utils/ai.js) ----
    rsOpts,      \* opts.maxAttempts as an optional: <<>> (not given) or <<n>>
    rsPc,        \* "call" (attemptFn is about to run), "backoff", "done"
    rsCalls,     \* the responses of the service calls made so far, in order
    rsErr,       \* the RetryableError of the last failed attempt, <<>> if none
    rsDelays,    \* the delays (ms) p-retry has waited so far, in order
    rsResult,    \* <<>> until requestStructured settles, then <<outcome>>
    \* ---- safeParseJsonFromText called on its own (scripts/utils/ai.js) ----
    pText,       \* the text argument, character by character
    pPc,         \* "ready" before the call, "done" after it, "idle" when unused
    pParsed,     \* the returned value: <<>> for null, else <<value>>
    \* ---- the outText assembly of attemptFn on its own (scripts/utils/ai.js) ----
    nResp,       \* the response of client.responses.create, shape by shape
    nPc,         \* "ready" before the assembly, then "text" or "no_text"
                 \* (the parse_failed throw of line 85), "idle" when unused
    nOutText,    \* outText: <<>> for null, else <<text>>
    \* ---- the blog URL loop of the post-extraction stages ----
    \* ---- (scripts/extract-posts.js, and its jinai variant) ----
    xStage,      \* "html": every blog URL is loaded in a page; "jinai": the
                 \* page is the fallback of the jinai reader
    xCount,      \* how many blog URLs the finder output holds
    xIdx,        \* the blog URL being processed, counted from 1
    xPc,         \* position inside the loop body, "done" after browser.close()
    xPagesOpen,  \* pages opened with browser.newPage and not yet closed
    xLog,        \* how the processing of each blog URL ended, in order
    \* ---- findMatches called on its own (scripts/1-find-blog-posts.js) ----
    mUrls,       \* the urls argument (a list of strings)
    mPatterns,   \* the patterns argument (a list of strings)
    mRootOnly,   \* the rootOnly argument
    mPc,         \* "ready" before the call, "done" after it, "idle" when unused
    mResult,     \* the returned list
    \* ---- main() and findBlogForRoot (scripts/1-find-blog-posts.js) ----
    configs,        \* the normalized site configs, in configured order
    siteIdx,        \* the loop variable i of main, counted from 1
    mainPc,         \* "loop", "site" (inside findBlogForRoot), "done",
                    \* "crashed" (main() rejected), "idle" when unused
    allResults,     \* the results array
    resLog,         \* for each entry of allResults, the res it was built from
    root,           \* ensureUrl(inputUrl) of the current site
    dPc,            \* position inside findBlogForRoot
    cIdx,           \* index of the next sitemap candidate
    robotsSitemaps, \* robots.txt sitemaps still to resolve
    robotsRead,     \* whether robots.txt was read for the current site
    robotsText,     \* the lines of robots.txt the current site got, <<>> if none
    visited,        \* the visited Set of the current site
    stack,          \* the active fetchSitemapUrls calls, innermost last
    allLocs,        \* allLocs of findBlogForRoot
    fetchLog,       \* every fetch made by fetchSitemapUrls: site, url, result
    sitemapMatches, \* matchesFromSitemap
    homeMatches,    \* matchesFromHome
    pagesOpen,      \* pages opened with browser.newPage and not yet closed
    homeSeen,       \* what page.goto(rootUrl) gave for the current site
    netMode         \* which answers the network of this run can give

rsVars == <<rsOpts, rsPc, rsCalls, rsErr, rsDelays, rsResult>>

pVars == <<pText, pPc, pParsed>>

nVars == <<nResp, nPc, nOutText>>

xVars == <<xStage, xCount, xIdx, xPc, xPagesOpen, xLog>>

mVars == <<mUrls, mPatterns, mRootOnly, mPc, mResult>>

mainVars == <<configs, siteIdx, mainPc, allResults, resLog, netMode>>

siteVars == <<root, dPc, cIdx, robotsSitemaps, robotsRead, robotsText, visited, stack, allLocs,
              fetchLog, sitemapMatches, homeMatches, pagesOpen, homeSeen>>

dVars == <<mainVars, siteVars>>

vars == <<rsVars, pVars, nVars, xVars, mVars, dVars>>

\* what each component leaves alone
notRsVars == <<pVars, nVars, xVars, mVars, dVars>>
notPVars == <<rsVars, nVars, xVars, mVars, dVars>>
notNVars == <<rsVars, pVars, xVars, mVars, dVars>>
notXVars == <<rsVars, pVars, nVars, mVars, dVars>>
notMVars == <<rsVars, pVars, nVars, xVars, dVars>>
notDVars == <<rsVars, pVars, nVars, xVars, mVars>>

(***************************************************************************)
(* Bounds of the model.                                                    *)
(***************************************************************************)
\* largest opts.maxAttempts a caller passes in the model
MaxAttemptsOpt == 3
\* largest opts.maxAttempts a caller passes when the service is failing
MaxRetryAttempts == 6
\* largest token count the service reports in usage
MaxTokens == 1
\* longest text (in characters) handed to safeParseJsonFromText
MaxTextLen == 5
\* longest output array of a response
MaxOutput == 2
\* most blog URLs in the finder output read by the post-extraction stages
MaxBlogUrls == 3
\* number of distinct output texts the service can produce per parse class
MaxTextId == 1
\* longest url list handed to findMatches on its own
MaxUrls == 2
\* longest pattern list handed to findMatches on its own
MaxPatterns == 2
\* most <loc> entries in one sitemap document
MaxLocs == 2
\* most configured sites in one run of main
MaxSites == 2

(***************************************************************************)
(* Strings: sequences of one-character strings                             *)
(***************************************************************************)
UpperChars == <<"A","B","C","D","E","F","G","H","I","J","K","L","M",
                "N","O","P","Q","R","S","T","U","V","W","X","Y","Z">>
LowerChars == <<"a","b","c","d","e","f","g","h","i","j","k","l","m",
                "n","o","p","q","r","s","t","u","v","w","x","y","z">>

UpperSet == {UpperChars[k] : k \in 1..26}

LowerMap == [c \in UpperSet |-> LowerChars[CHOOSE k \in 1..26 : UpperChars[k] = c]]

toLowerChar(c) == IF c \in UpperSet THEN LowerMap[c] ELSE c

\* String.prototype.toLowerCase
toLowerCase(s) == [i \in 1..Len(s) |-> toLowerChar(s[i])]

\* String.prototype.startsWith / endsWith / includes
startsWith(s, p) == Len(p) <= Len(s) /\ SubSeq(s, 1, Len(p)) = p
endsWith(s, p) == Len(p) <= Len(s) /\ SubSeq(s, Len(s) - Len(p) + 1, Len(s)) = p
includes(s, p) == \E i \in 1..(Len(s) - Len(p) + 1) : SubSeq(s, i, i + Len(p) - 1) = p

RECURSIVE FirstFrom(_, _, _)
FirstFrom(s, cs, i) ==
    IF i > Len(s) THEN Len(s) + 1
    ELSE IF s[i] \in cs THEN i
    ELSE FirstFrom(s, cs, i + 1)

\* index of the first character of s that is in cs, Len(s) + 1 when none is
FirstOf(s, cs) == FirstFrom(s, cs, 1)

\* s.split(c)[0]
splitFirst(s, c) == SubSeq(s, 1, FirstOf(s, {c}) - 1)

LowerSet == {LowerChars[k] : k \in 1..26}

IsLetter(c) == c \in UpperSet \/ c \in LowerSet

HttpStr == <<"h","t","t","p">>
HttpsStr == <<"h","t","t","p","s">>
FtpStr == <<"f","t","p">>

\* new URL(u) without a base, by the steps of the URL parser.  ok = FALSE
\* stands for the TypeError it throws: no scheme, or an http(s) URL without a
\* valid host.  Dot segments and percent-encoding are not modelled (no string
\* of the model has any).
UrlFailure == [ok |-> FALSE]

\* path state: the path ends at the first ? or #; an empty path of an http(s)
\* URL is "/"
ParsePath(scheme, host, tail, pathEnd) ==
    [ok |-> TRUE,
     protocol |-> scheme \o <<":">>,
     host |-> host,
     pathname |-> IF pathEnd = 1 THEN <<"/">> ELSE SubSeq(tail, 1, pathEnd - 1),
     href |-> scheme \o <<":", "/", "/">> \o host
                \o (IF pathEnd = 1 THEN <<"/">> ELSE SubSeq(tail, 1, pathEnd - 1))
                \o SubSeq(tail, pathEnd, Len(tail))]

\* host state: the host is lowercased, must not be empty nor hold a space
ParseHost(scheme, host, tail) ==
    IF host = <<>> \/ \E i \in 1..Len(host) : host[i] = " " THEN UrlFailure
    ELSE ParsePath(scheme, host, tail, FirstOf(tail, {"?", "#"}))

\* authority state: the host ends at the first / ? or #
ParseAuthority(scheme, after, hostEnd) ==
    ParseHost(scheme, toLowerCase(SubSeq(after, 1, hostEnd - 1)),
              SubSeq(after, hostEnd, Len(after)))

\* an http(s) or ftp URL without a base needs "//" after the scheme
ParseSpecial(scheme, rest) ==
    IF ~startsWith(rest, <<"/", "/">>) THEN UrlFailure
    ELSE ParseAuthority(scheme, SubSeq(rest, 3, Len(rest)),
                        FirstOf(SubSeq(rest, 3, Len(rest)), {"/", "?", "#"}))

\* a URL of another scheme (mailto:) has an opaque path
ParseOpaque(scheme, rest, pathEnd) ==
    [ok |-> TRUE,
     protocol |-> scheme \o <<":">>,
     host |-> <<>>,
     pathname |-> SubSeq(rest, 1, pathEnd - 1),
     href |-> scheme \o <<":">> \o rest]

\* scheme state: letters up to the first colon, lowercased
ParseScheme(u, colon) ==
    IF ~(colon <= Len(u) /\ colon > 1 /\ \A i \in 1..(colon - 1) : IsLetter(u[i]))
    THEN UrlFailure
    ELSE IF toLowerCase(SubSeq(u, 1, colon - 1)) \in {HttpStr, HttpsStr, FtpStr}
    THEN ParseSpecial(toLowerCase(SubSeq(u, 1, colon - 1)), SubSeq(u, colon + 1, Len(u)))
    ELSE ParseOpaque(toLowerCase(SubSeq(u, 1, colon - 1)), SubSeq(u, colon + 1, Len(u)),
                     FirstOf(SubSeq(u, colon + 1, Len(u)), {"?", "#"}))

ParseURL(u) == ParseScheme(u, FirstOf(u, {":"}))

(***************************************************************************)
(* findMatches                                                             *)
(***************************************************************************)
\* (mutant) the root-only test forgets the trailing-slash form
MatchesParsedNoSlash(pathname, patterns, rootOnly) ==
    \E k \in 1..Len(patterns) :
        LET normPat == toLowerCase(patterns[k])
        IN  IF rootOnly
            THEN pathname = normPat
            ELSE includes(pathname, normPat)

\* try branch: the url parsed; pathname = (p.pathname || '/').toLowerCase()
MatchesParsed(pathname, patterns, rootOnly) ==
    \E k \in 1..Len(patterns) :
        LET normPat == toLowerCase(patterns[k])
        IN  IF rootOnly
            THEN pathname = normPat \/ pathname = normPat \o <<"/">>
            ELSE includes(pathname, normPat)

\* catch branch: new URL(u) threw
MatchesUnparsed(u, patterns, rootOnly) ==
    \E k \in 1..Len(patterns) :
        LET normPat == toLowerCase(patterns[k])
            pth == toLowerCase(splitFirst(splitFirst(u, "?"), "#"))
        IN  IF rootOnly
            THEN endsWith(pth, normPat) \/ endsWith(pth, normPat \o <<"/">>)
            ELSE includes(toLowerCase(u), normPat)

\* whether the loop body adds u to `found`
UrlMatches(u, patterns, rootOnly) ==
    LET p == ParseURL(u)
    IN  IF p.ok
        THEN MatchesParsed(toLowerCase(IF p.pathname = <<>> THEN <<"/">> ELSE p.pathname),
                           patterns, rootOnly)
        ELSE MatchesUnparsed(u, patterns, rootOnly)

\* (mutant) found is an array: every match is pushed
SetAddAlways(found, u) == Append(found, u)

\* found.add(u): a Set keeps the first insertion of each value
SetAdd(found, u) ==
    IF \E i \in 1..Len(found) : found[i] = u THEN found ELSE Append(found, u)

RECURSIVE findMatchesFrom(_, _, _, _)
findMatchesFrom(urls, patterns, rootOnly, found) ==
    IF urls = <<>> THEN found
    ELSE findMatchesFrom(Tail(urls), patterns, rootOnly,
                         IF UrlMatches(Head(urls), patterns, rootOnly)
                         THEN SetAdd(found, Head(urls)) ELSE found)

\* findMatches(urls, patterns, rootOnly = true): Array.from(found)
findMatches(urls, patterns, rootOnly) == findMatchesFrom(urls, patterns, rootOnly, <<>>)

\* Strings of the model
Origin == <<"h","t","t","p","s",":","/","/","x",".","c","o","m">>
PatBlog == <<"/","b","l","o","g">>
PatPosts == <<"/","p","o","s","t","s">>
PatBlogUpper == <<"/","B","l","o","g">>

UrlRoot == Origin \o <<"/">>
UrlBlog == Origin \o PatBlog
UrlBlogSlash == Origin \o PatBlog \o <<"/">>
UrlBlogPost1 == Origin \o PatBlog \o <<"/","p","o","s","t","-","1">>
UrlBlogArchive == Origin \o PatBlog \o <<"/","a","r","c","h","i","v","e">>
UrlBlogCaps == Origin \o <<"/","B","L","O","G">>
UrlPosts == Origin \o PatPosts
UrlAboutQuery == Origin \o <<"/","a","b","o","u","t","?","r","=">> \o PatBlog
UrlRelBlog == PatBlog
UrlBareFragment == <<"x",".","c","o","m","/","n","e","w","s","#">> \o PatBlog

\* urls a caller may hand to findMatches
MatchUrls == {UrlBlog, UrlBlogSlash, UrlBlogPost1, UrlBlogCaps,
              UrlAboutQuery, UrlRelBlog, UrlBareFragment}

MatchPatterns == {PatBlog, PatPosts, PatBlogUpper}

\* all lists over S of length at most n
SeqsUpTo(S, n) == UNION {[1..k -> S] : k \in 0..n}

MInit ==
    /\ mUrls \in SeqsUpTo(MatchUrls, MaxUrls)
    /\ mPatterns \in SeqsUpTo(MatchPatterns, MaxPatterns)
    /\ mRootOnly \in BOOLEAN
    /\ mPc = "ready"
    /\ mResult = <<>>

MIdle ==
    /\ mUrls = <<>> /\ mPatterns = <<>> /\ mRootOnly = TRUE
    /\ mPc = "idle" /\ mResult = <<>>

\* the call findMatches(urls, patterns, rootOnly)
MCall ==
    /\ mPc = "ready"
    /\ mResult' = findMatches(mUrls, mPatterns, mRootOnly)
    /\ mPc' = "done"
    /\ UNCHANGED <<mUrls, mPatterns, mRootOnly>>
    /\ UNCHANGED notMVars

MNext == MCall

(***************************************************************************)
(* Sitemap discovery: getSitemapCandidates, fetchSitemapUrls,              *)
(* findSitemapsFromRobots, findFromHomepage, findBlogForRoot, main         *)
(***************************************************************************)
SitemapXmlPath == <<"/","s","i","t","e","m","a","p",".","x","m","l">>
SitemapIndexPath == <<"/","s","i","t","e","m","a","p","_","i","n","d","e","x",".","x","m","l">>
SitemapGzPath == <<"/","s","i","t","e","m","a","p",".","x","m","l",".","g","z">>
SitemapDashIndexPath == <<"/","s","i","t","e","m","a","p","-","i","n","d","e","x",".","x","m","l">>
RobotsPath == <<"/","r","o","b","o","t","s",".","t","x","t">>

\* ---- the strings of the model ----
OriginCaps == <<"h","t","t","p","s",":","/","/","X",".","C","O","M">>
SmA == Origin \o <<"/","a",".","x","m","l">>
SmACaps == OriginCaps \o <<"/","a",".","x","m","l">>
SmB == Origin \o <<"/","b",".","x","m","l">>
SmR == Origin \o <<"/","r",".","x","m","l">>
Cand1 == Origin \o SitemapXmlPath
Cand2 == Origin \o SitemapIndexPath
BareHost == <<"x",".","c","o","m">>
BadHost == <<"x"," ","y">>

\* the <loc> values a sitemap document of the model may list, in document order
LocUniverse == <<SmA, SmACaps, SmB, Cand2, UrlBlog, UrlBlogPost1>>

HttpPrefix == <<"h","t","t","p",":","/","/">>

\* a chain of sitemap documents d1.xml, d2.xml, ..., each listing the next
Digits == <<"1","2","3","4","5","6","7","8","9">>
DeepPath(k) == <<"/","d",Digits[k],".","x","m","l">>
DeepDoc(k) == Origin \o DeepPath(k)

\* the strings the runs of the model hand to new URL
KnownUrls ==
    {LocUniverse[k] : k \in 1..Len(LocUniverse)}
        \cup {SmR, Origin, BareHost, BadHost, HttpPrefix \o BareHost, HttpPrefix \o BadHost}
        \cup {o \o q : o \in {Origin, HttpPrefix \o BareHost},
                       q \in {<<>>, <<"/">>, SitemapXmlPath, SitemapIndexPath, SitemapGzPath,
                              SitemapDashIndexPath, RobotsPath}}
        \cup {DeepDoc(k) : k \in 1..Len(Digits)}

\* new URL(u) of the known strings, parsed once
ParsedKnown == [u \in KnownUrls |-> ParseURL(u)]

\* new URL(u)
NewURL(u) == IF u \in KnownUrls THEN ParsedKnown[u] ELSE ParseURL(u)

\* ensureUrl(input): new URL(input).href, else new URL('http://' + input).href;
\* ok = FALSE when the second constructor throws as well
ensureUrl(input) ==
    IF NewURL(input).ok THEN [ok |-> TRUE, href |-> NewURL(input).href]
    ELSE LET q == NewURL(HttpPrefix \o input)
         IN  IF q.ok THEN [ok |-> TRUE, href |-> q.href] ELSE [ok |-> FALSE]

\* u.origin of a parsed http(s) URL
OriginOf(url) == LET p == NewURL(url) IN p.protocol \o <<"/", "/">> \o p.host

getSitemapCandidates(rootUrl) ==
    LET base == OriginOf(rootUrl)
    IN  <<base \o SitemapXmlPath, base \o SitemapIndexPath,
          base \o SitemapGzPath, base \o SitemapDashIndexPath>>

\* Array.from(new Set(list)): first occurrences, in order
RECURSIVE DedupeFrom(_, _)
DedupeFrom(list, acc) ==
    IF list = <<>> THEN acc ELSE DedupeFrom(Tail(list), SetAdd(acc, Head(list)))

\* (mutant) no deduplication
DedupeNone(list) == list

Dedupe(list) == DedupeFrom(list, <<>>)

\* extractLocsFromSitemap: the trimmed <loc> contents of the text, deduplicated.
\* A text is kept as the list of its <loc> contents.
extractLocsFromSitemap(text) == Dedupe(text)

XmlSuffix == <<".","x","m","l">>
XmlGzSuffix == <<".","x","m","l",".","g","z">>

\* low = l.split('?')[0].toLowerCase(); low.endsWith('.xml') || low.endsWith('.xml.gz')
IsSitemapLoc(l) ==
    LET low == toLowerCase(splitFirst(l, "?"))
    IN  endsWith(low, XmlSuffix) \/ endsWith(low, XmlGzSuffix)

\* if (!sitemapUrl || depth > 6) return []
MaxDepth == 6

\* (mutant) the depth is not looked at
EnterCheckAnyDepth(sitemapUrl, vis, depth) ==
    LET p == NewURL(sitemapUrl)
    IN  IF sitemapUrl = <<>> THEN [go |-> FALSE]
        ELSE IF ~p.ok THEN [go |-> FALSE]
        ELSE IF p.href \in vis THEN [go |-> FALSE]
        ELSE [go |-> TRUE, norm |-> p.href, path |-> p.pathname]

\* (mutant) the visited set is asked for the string as written, not for its href
EnterCheckRaw(sitemapUrl, vis, depth) ==
    LET p == NewURL(sitemapUrl)
    IN  IF sitemapUrl = <<>> \/ depth > MaxDepth THEN [go |-> FALSE]
        ELSE IF ~p.ok THEN [go |-> FALSE]
        ELSE IF sitemapUrl \in vis THEN [go |-> FALSE]
        ELSE [go |-> TRUE, norm |-> p.href, path |-> p.pathname]

\* The guards of fetchSitemapUrls before the fetch: go = TRUE when the URL is
\* to be fetched (norm is its href), FALSE when the call returns [] at once.
EnterCheck(sitemapUrl, vis, depth) ==
    LET p == NewURL(sitemapUrl)
    IN  IF sitemapUrl = <<>> \/ depth > MaxDepth THEN [go |-> FALSE]
        ELSE IF ~p.ok THEN [go |-> FALSE]
        ELSE IF p.href \in vis THEN [go |-> FALSE]
        ELSE [go |-> TRUE, norm |-> p.href, path |-> p.pathname]

\* (mutant) a failed fetch is read as a document with a location
FetchedTextOfError(ans) == IF ans.kind = "text" THEN ans.locs ELSE <<UrlBlog>>

\* text = await fetchWithApi(api, norm).catch(() => null): the document, as
\* the list of its <loc> values; nothing when the GET threw or was not ok
FetchedText(ans) == IF ans.kind = "text" THEN ans.locs ELSE <<>>

\* (mutant) the URL is not added to the visited set
EnterSitemapForgets(chk, vis, depth, ans, site) ==
    IF ~chk.go
    THEN [visited |-> vis, fetches |-> <<>>, frames |-> <<>>]
    ELSE LET text == FetchedText(ans)
             locs == extractLocsFromSitemap(text)
         IN  [visited |-> vis,
              fetches |-> <<[site |-> site, url |-> chk.norm, depth |-> depth,
                             ans |-> ans]>>,
              frames |-> IF locs = <<>> THEN <<>>
                         ELSE <<[url |-> chk.norm, locs |-> locs, pageUrls |-> <<>>,
                                 depth |-> depth]>>]

\* fetchSitemapUrls(api, sitemapUrl, visited, depth) up to its loop, `chk`
\* being the outcome of its guards and `ans` the answer its fetch gets: the
\* visited set afterwards, the fetch made (if any) and the call frame opened
\* when the document has locations.
EnterSitemap(chk, vis, depth, ans, site) ==
    IF ~chk.go
    THEN [visited |-> vis, fetches |-> <<>>, frames |-> <<>>]
    ELSE LET text == FetchedText(ans)
             locs == extractLocsFromSitemap(text)
         IN  [visited |-> vis \cup {chk.norm},
              fetches |-> <<[site |-> site, url |-> chk.norm, depth |-> depth,
                             ans |-> ans]>>,
              frames |-> IF locs = <<>> THEN <<>>
                         ELSE <<[url |-> chk.norm, locs |-> locs, pageUrls |-> <<>>,
                                 depth |-> depth]>>]

\* ---- the network of the model ----
RECURSIVE Pick(_, _)
Pick(list, idx) ==
    IF list = <<>> THEN <<>>
    ELSE IF Len(list) \in idx
    THEN Append(Pick(SubSeq(list, 1, Len(list) - 1), idx), list[Len(list)])
    ELSE Pick(SubSeq(list, 1, Len(list) - 1), idx)

\* every document body with at most MaxLocs locations
Bodies ==
    {Pick(LocUniverse, idx) :
        idx \in {x \in SUBSET (1..Len(LocUniverse)) : Cardinality(x) <= MaxLocs}}

Failed == {[kind |-> "throw"], [kind |-> "notok"]}

TextAns(locs) == [kind |-> "text", locs |-> locs]

PathA == <<"/","a",".","x","m","l">>
PathB == <<"/","b",".","x","m","l">>
PathR == <<"/","r",".","x","m","l">>

\* the bodies of the document b.xml
BodiesB == {<<>>, <<SmA>>, <<UrlBlogPost1>>, <<SmA, UrlBlogPost1>>}

\* What a GET of the document at `path` can answer in a run of mode `mode`:
\*   "rich"  every document may fail; the last two candidates do not exist
\*   "allok" every GET succeeds
\*   "lean"  only sitemap.xml, a.xml and r.xml exist
\*   "deep"  sitemap.xml lists d1.xml, and dk.xml lists dk+1.xml and a page
FetchOptions(path, mode) ==
        CASE mode = "deep" ->
               IF path = SitemapXmlPath
               THEN {TextAns(<<DeepDoc(1)>>)}
               ELSE IF \E k \in 1..(Len(Digits) - 1) : path = DeepPath(k)
               THEN LET k == CHOOSE j \in 1..(Len(Digits) - 1) : path = DeepPath(j)
                    IN  {[kind |-> "notok"], TextAns(<<DeepDoc(k + 1), UrlBlog>>)}
               ELSE {[kind |-> "notok"]}
          [] mode = "rich" ->
               IF path \in {SitemapXmlPath, PathA}
               THEN Failed \cup {TextAns(b) : b \in Bodies}
               ELSE IF path = PathB
               THEN {[kind |-> "notok"]} \cup {TextAns(b) : b \in BodiesB}
               ELSE IF path = SitemapIndexPath
               THEN {[kind |-> "notok"], TextAns(<<UrlBlog>>)}
               ELSE IF path = PathR
               THEN {[kind |-> "notok"], TextAns(<<UrlBlogPost1>>)}
               ELSE {[kind |-> "notok"]}
          [] mode = "allok" ->
               IF path \in {SitemapXmlPath, PathA}
               THEN {TextAns(b) : b \in Bodies}
               ELSE IF path = PathB
               THEN {TextAns(b) : b \in BodiesB}
               ELSE IF path = SitemapIndexPath
               THEN {TextAns(<<UrlBlog>>)}
               ELSE IF path = SitemapGzPath
               THEN {TextAns(<<SmB>>)}
               ELSE {TextAns(<<UrlBlogPost1, UrlBlog>>)}
          [] OTHER ->
               IF path = SitemapXmlPath
               THEN {[kind |-> "notok"], TextAns(<<UrlBlogPost1, SmA>>),
                     TextAns(<<UrlBlogSlash>>)}
               ELSE IF path = PathA
               THEN {TextAns(<<UrlBlog>>)}
               ELSE IF path = PathR
               THEN {TextAns(<<UrlBlogPost1>>)}
               ELSE {[kind |-> "notok"]}

SitemapKey == <<"S","i","t","e","m","a","p">>
SitemapKeyLower == <<"s","i","t","e","m","a","p">>
DisallowKey == <<"D","i","s","a","l","l","o","w">>

\* robots.txt texts, as lists of `key: value` lines
RobotsTexts(mode) ==
    IF mode # "lean"
    THEN {<<>>,
          <<[key |-> DisallowKey, value |-> <<"/">>]>>,
          <<[key |-> SitemapKey, value |-> SmR]>>,
          <<[key |-> SitemapKeyLower, value |-> SmR], [key |-> SitemapKey, value |-> SmA]>>,
          <<[key |-> SitemapKey, value |-> Cand1]>>}
    ELSE {<<>>, <<[key |-> SitemapKey, value |-> SmR]>>}

RobotsOptions(mode) == Failed \cup {[kind |-> "text", lines |-> t] : t \in RobotsTexts(mode)}

\* (mutant) the directive name is matched with its case
IsSitemapDirectiveCased(line) == line.key = SitemapKey

\* line.match(/^\s*Sitemap:\s*(.+)$/i)
IsSitemapDirective(line) == toLowerCase(line.key) = SitemapKeyLower

RECURSIVE DirectiveValues(_)
DirectiveValues(lines) ==
    IF lines = <<>> THEN <<>>
    ELSE IF IsSitemapDirective(Head(lines))
    THEN <<Head(lines).value>> \o DirectiveValues(Tail(lines))
    ELSE DirectiveValues(Tail(lines))

\* findSitemapsFromRobots: [] when the fetch throws or yields no text
findSitemapsFromRobots(ans) ==
    IF ans.kind = "text" THEN DirectiveValues(ans.lines) ELSE <<>>

\* ---- the homepage ----
RelBlog == PatBlog
RelBlogArchive == PatBlog \o <<"/","a","r","c","h","i","v","e">>
MailTo == <<"m","a","i","l","t","o",":","a","@","x",".","c","o","m">>
FtpBlog == <<"f","t","p",":","/","/","x",".","c","o","m">> \o PatBlog

\* what page.goto(rootUrl) can do: reject (timeout included), resolve to null,
\* or resolve to a response with a status and a document with anchors
HomeOptions(mode) ==
    IF mode # "lean"
    THEN {[kind |-> "throw"],
          [kind |-> "page", status |-> 200, anchors |-> <<RelBlog, RelBlogArchive>>]}
    ELSE {[kind |-> "throw"], [kind |-> "null"],
          [kind |-> "page", status |-> 404, anchors |-> <<RelBlog>>],
          [kind |-> "page", status |-> 200, anchors |-> <<RelBlog, RelBlogArchive>>],
          [kind |-> "page", status |-> 200, anchors |-> <<UrlPosts, MailTo, FtpBlog, RelBlogArchive>>]}

\* whether browser.newPage() can reject in a run of mode `mode`
NewPageOptions(mode) == IF mode # "lean" THEN {TRUE} ELSE {TRUE, FALSE}

\* new URL(a.href, document.baseURI).href, null when it throws
ResolveHref(href, base) ==
    IF NewURL(href).ok THEN <<NewURL(href).href>>
    ELSE IF startsWith(href, <<"/">>) THEN <<OriginOf(base) \o href>>
    ELSE <<>>

RECURSIVE ResolveAll(_, _)
ResolveAll(anchors, base) ==
    IF anchors = <<>> THEN <<>>
    ELSE ResolveHref(Head(anchors), base) \o ResolveAll(Tail(anchors), base)

\* the a[href] values page.$$eval gets to see: none unless page.goto resolved
\* to a response with a status below 400
AnchorsRead(h) ==
    IF h.kind \in {"none", "throw", "null"} THEN <<>>
    ELSE IF h.status >= 400 THEN <<>>
    ELSE h.anchors

\* (mutant) the anchors are matched by substring
findFromHomepageSubstring(h, rootUrl, patterns, bad) ==
    IF h.kind \in {"throw", "null"} THEN <<>>
    ELSE IF h.status >= 400 THEN <<>>
    ELSE LET absolute == ResolveAll(h.anchors, rootUrl)
         IN  IF bad /\ absolute # <<>> THEN <<>>
             ELSE findMatches(absolute, patterns, FALSE)

\* (mutant) the status of the response is not looked at
findFromHomepageAnyStatus(h, rootUrl, patterns, bad) ==
    IF h.kind \in {"throw", "null"} THEN <<>>
    ELSE LET absolute == ResolveAll(h.anchors, rootUrl)
         IN  IF bad /\ absolute # <<>> THEN <<>>
             ELSE findMatches(absolute, patterns, TRUE)

\* findFromHomepage(page, rootUrl, patterns); `bad` says the pattern list holds
\* a non-string, on which pat.toLowerCase() throws inside the try block
findFromHomepage(h, rootUrl, patterns, bad) ==
    IF h.kind \in {"throw", "null"} THEN <<>>
    ELSE IF h.status >= 400 THEN <<>>
    ELSE LET absolute == ResolveAll(h.anchors, rootUrl)
         IN  IF bad /\ absolute # <<>> THEN <<>>
             ELSE findMatches(absolute, patterns, TRUE)

\* ---- main ----
DefaultPatterns == <<PatBlog, PatPosts>>

\* const patterns = Array.isArray(cfg.patterns) && cfg.patterns.length ? ... : default
PatternsOf(cfg) == IF cfg.patterns = <<>> THEN DefaultPatterns ELSE cfg.patterns

Cfg(url, rootOnly, patterns, bad) ==
    [url |-> url, rootOnly |-> rootOnly, patterns |-> patterns, badPatterns |-> bad]

\* the site configs of the model: a plain site, a site matched by substring, a
\* config without url, a url no URL can be made of, a pattern list holding a
\* non-string
SiteConfigs ==
    {Cfg(Origin, TRUE, <<>>, FALSE),
     Cfg(BareHost, FALSE, <<PatBlog>>, FALSE),
     Cfg(<<>>, TRUE, <<>>, FALSE),
     Cfg(BadHost, TRUE, <<>>, FALSE),
     Cfg(Origin, TRUE, <<PatBlog>>, TRUE)}

\* (mutant) the homepage matches are preferred over the sitemap matches
ChooseMatchesHomeFirst(sitemap, homepage) ==
    IF homepage # <<>> THEN homepage ELSE sitemap

\* (res.sitemap && res.sitemap.length) ? res.sitemap : (res.homepage ... : [])
ChooseMatches(sitemap, homepage) ==
    IF sitemap # <<>> THEN sitemap ELSE homepage

\* no page.goto yet
NoHome == [kind |-> "none"]

SiteLocalsInit ==
    /\ root = <<>> /\ dPc = "none" /\ cIdx = 1 /\ robotsSitemaps = <<>>
    /\ robotsRead = FALSE /\ robotsText = <<>> /\ visited = {} /\ stack = <<>> /\ allLocs = <<>>
    /\ fetchLog = <<>> /\ sitemapMatches = <<>> /\ homeMatches = <<>>
    /\ pagesOpen = 0 /\ homeSeen = NoHome

DIdle ==
    /\ configs = <<>> /\ siteIdx = 1 /\ mainPc = "idle" /\ allResults = <<>>
    /\ resLog = <<>> /\ netMode = "lean"
    /\ SiteLocalsInit

\* one site, any answer of the network
SitemapInit ==
    /\ configs = <<Cfg(Origin, TRUE, <<>>, FALSE)>>
    /\ netMode \in {"rich", "allok", "deep"}
    /\ siteIdx = 1 /\ mainPc = "loop" /\ allResults = <<>> /\ resLog = <<>>
    /\ SiteLocalsInit

\* up to MaxSites sites of every kind
MainInit ==
    /\ configs \in SeqsUpTo(SiteConfigs, MaxSites)
    /\ netMode = "lean"
    /\ siteIdx = 1 /\ mainPc = "loop" /\ allResults = <<>> /\ resLog = <<>>
    /\ SiteLocalsInit

\* (mutant) one visited set for the whole run
NewVisitedShared(old) == old

\* const visited = new Set(): findBlogForRoot creates it on every call; `old`
\* is the set of the previous call, which nothing refers to any more
NewVisited(old) == {}

\* allResults.push({ url: root, patterns, matches: strictMatches, socials })
MatchesEntry(url, patterns, strictMatches) ==
    [url |-> url, patterns |-> patterns, matches |-> strictMatches,
     socials |-> [x |-> <<>>, linkedin |-> <<>>]]

\* (mutant) the catch block records an empty match list next to the error
ErrorEntryWithMatches(url, patterns, message) ==
    [url |-> url, patterns |-> patterns, matches |-> <<>>, error |-> message]

\* catch (err): allResults.push({ url: root, patterns, error: err.message })
ErrorEntry(url, patterns, message) ==
    [url |-> url, patterns |-> patterns, error |-> message]

\* The head of the site loop up to the call of findBlogForRoot: a config
\* without url is skipped, ensureUrl runs outside the try block.
MainNextSite ==
    /\ mainPc = "loop"
    /\ siteIdx <= Len(configs)
    /\ LET inputUrl == configs[siteIdx].url
       IN  IF inputUrl = <<>>
           THEN /\ siteIdx' = siteIdx + 1
                /\ UNCHANGED <<mainPc, siteVars>>
           ELSE IF ~ensureUrl(inputUrl).ok
           THEN /\ mainPc' = "crashed"
                /\ UNCHANGED <<siteIdx, siteVars>>
           ELSE /\ mainPc' = "site"
                /\ root' = ensureUrl(inputUrl).href
                /\ dPc' = "candidates"
                /\ cIdx' = 1
                /\ robotsSitemaps' = <<>>
                /\ robotsRead' = FALSE
                /\ robotsText' = <<>>
                /\ visited' = NewVisited(visited)
                /\ stack' = <<>>
                /\ allLocs' = <<>>
                /\ sitemapMatches' = <<>>
                /\ homeMatches' = <<>>
                /\ homeSeen' = NoHome
                /\ UNCHANGED <<siteIdx, fetchLog, pagesOpen>>
    /\ UNCHANGED <<configs, allResults, resLog, netMode>>
    /\ UNCHANGED notDVars

\* the loop is over: browser.close(), api.dispose(), the results are written
MainFinish ==
    /\ mainPc = "loop"
    /\ siteIdx > Len(configs)
    /\ mainPc' = "done"
    /\ UNCHANGED <<configs, siteIdx, allResults, resLog, netMode, siteVars>>
    /\ UNCHANGED notDVars

\* the answers a call of fetchSitemapUrls can get to its fetch
AnswersFor(chk) ==
    IF ~chk.go THEN {[kind |-> "notok"]} ELSE FetchOptions(chk.path, netMode)

\* for (const c of candidates) fetchSitemapUrls(api, c, visited)
DCandidate ==
    /\ mainPc = "site" /\ dPc = "candidates" /\ stack = <<>> /\ cIdx <= 4
    /\ LET chk == EnterCheck(getSitemapCandidates(root)[cIdx], visited, 0)
       IN  \E ans \in AnswersFor(chk) :
             LET e == EnterSitemap(chk, visited, 0, ans, siteIdx)
             IN  /\ visited' = e.visited
                 /\ fetchLog' = fetchLog \o e.fetches
                 /\ stack' = e.frames
                 /\ cIdx' = IF e.frames = <<>> THEN cIdx + 1 ELSE cIdx
    /\ UNCHANGED <<root, dPc, robotsSitemaps, robotsRead, robotsText, allLocs, sitemapMatches,
                   homeMatches, pagesOpen, homeSeen>>
    /\ UNCHANGED mainVars
    /\ UNCHANGED notDVars

\* if (allLocs.length === 0) robotsSitemaps = await findSitemapsFromRobots(...)
DAfterCandidates ==
    /\ mainPc = "site" /\ dPc = "candidates" /\ stack = <<>> /\ cIdx > 4
    /\ IF allLocs = <<>>
       THEN \E ans \in RobotsOptions(netMode) :
              /\ robotsSitemaps' = findSitemapsFromRobots(ans)
              /\ robotsRead' = TRUE
              /\ robotsText' = IF ans.kind = "text" THEN ans.lines ELSE <<>>
              /\ dPc' = "robots"
       ELSE /\ dPc' = "finish"
            /\ UNCHANGED <<robotsSitemaps, robotsRead, robotsText>>
    /\ UNCHANGED <<root, cIdx, visited, stack, allLocs, fetchLog, sitemapMatches,
                   homeMatches, pagesOpen, homeSeen>>
    /\ UNCHANGED mainVars
    /\ UNCHANGED notDVars

\* for (const s of robotsSitemaps) fetchSitemapUrls(api, s, visited)
DRobotsSitemap ==
    /\ mainPc = "site" /\ dPc = "robots" /\ stack = <<>> /\ robotsSitemaps # <<>>
    /\ LET chk == EnterCheck(Head(robotsSitemaps), visited, 0)
       IN  \E ans \in AnswersFor(chk) :
             LET e == EnterSitemap(chk, visited, 0, ans, siteIdx)
             IN  /\ visited' = e.visited
                 /\ fetchLog' = fetchLog \o e.fetches
                 /\ stack' = e.frames
                 /\ robotsSitemaps' = IF e.frames = <<>> THEN Tail(robotsSitemaps)
                                      ELSE robotsSitemaps
    /\ UNCHANGED <<root, dPc, cIdx, robotsRead, robotsText, allLocs, sitemapMatches, homeMatches,
                   pagesOpen, homeSeen>>
    /\ UNCHANGED mainVars
    /\ UNCHANGED notDVars

Top == stack[Len(stack)]

\* the loop body of fetchSitemapUrls on a location that is a page URL
DStepPage ==
    /\ mainPc = "site" /\ stack # <<>> /\ Top.locs # <<>>
    /\ ~IsSitemapLoc(Head(Top.locs))
    /\ stack' = [stack EXCEPT ![Len(stack)].locs = Tail(@),
                              ![Len(stack)].pageUrls = Append(@, Head(Top.locs))]
    /\ UNCHANGED <<root, dPc, cIdx, robotsSitemaps, robotsRead, robotsText, visited, allLocs,
                   fetchLog, sitemapMatches, homeMatches, pagesOpen, homeSeen>>
    /\ UNCHANGED mainVars
    /\ UNCHANGED notDVars

\* the loop body on a location ending in .xml or .xml.gz: the nested call
DStepNested ==
    /\ mainPc = "site" /\ stack # <<>> /\ Top.locs # <<>>
    /\ IsSitemapLoc(Head(Top.locs))
    /\ LET chk == EnterCheck(Head(Top.locs), visited, Top.depth + 1)
       IN  \E ans \in AnswersFor(chk) :
             LET e == EnterSitemap(chk, visited, Top.depth + 1, ans, siteIdx)
             IN  /\ visited' = e.visited
                 /\ fetchLog' = fetchLog \o e.fetches
                 /\ stack' = [stack EXCEPT ![Len(stack)].locs = Tail(@)] \o e.frames
    /\ UNCHANGED <<root, dPc, cIdx, robotsSitemaps, robotsRead, robotsText, allLocs,
                   sitemapMatches, homeMatches, pagesOpen, homeSeen>>
    /\ UNCHANGED mainVars
    /\ UNCHANGED notDVars

\* return Array.from(new Set(pageUrls)): to the calling fetchSitemapUrls
\* (pageUrls.push(...nested)) or to findBlogForRoot (allLocs.concat(locs))
DReturn ==
    /\ mainPc = "site" /\ stack # <<>> /\ Top.locs = <<>>
    /\ LET result == Dedupe(Top.pageUrls)
           rest == SubSeq(stack, 1, Len(stack) - 1)
       IN  IF rest # <<>>
           THEN /\ stack' = [rest EXCEPT ![Len(rest)].pageUrls = @ \o result]
                /\ UNCHANGED <<allLocs, cIdx, robotsSitemaps>>
           ELSE /\ stack' = <<>>
                /\ allLocs' = allLocs \o result
                /\ cIdx' = IF dPc = "candidates" THEN cIdx + 1 ELSE cIdx
                /\ robotsSitemaps' = IF dPc = "robots" THEN Tail(robotsSitemaps)
                                     ELSE robotsSitemaps
    /\ UNCHANGED <<root, dPc, robotsRead, robotsText, visited, fetchLog, sitemapMatches,
                   homeMatches, pagesOpen, homeSeen>>
    /\ UNCHANGED mainVars
    /\ UNCHANGED notDVars

\* allLocs = Array.from(new Set(allLocs)); matchesFromSitemap = findMatches(
\* allLocs, patterns).  A non-string pattern makes findMatches throw when
\* there is a URL to test: findBlogForRoot rejects and main records the error.
DFinish ==
    /\ mainPc = "site" /\ stack = <<>>
    /\ dPc = "finish" \/ (dPc = "robots" /\ robotsSitemaps = <<>>)
    /\ allLocs' = Dedupe(allLocs)
    /\ IF configs[siteIdx].badPatterns /\ allLocs # <<>>
       THEN /\ allResults' = Append(allResults,
                  ErrorEntry(root, PatternsOf(configs[siteIdx]),
                             "pat.toLowerCase is not a function"))
            /\ resLog' = Append(resLog, [site |-> siteIdx, threw |-> TRUE, raised |-> TRUE,
                                        sitemap |-> <<>>, homepage |-> <<>>,
                                        robots |-> robotsRead,
                                home |-> AnchorsRead(homeSeen)])
            /\ siteIdx' = siteIdx + 1
            /\ mainPc' = "loop"
            /\ dPc' = "none"
            /\ UNCHANGED sitemapMatches
       ELSE /\ sitemapMatches' = findMatches(allLocs', PatternsOf(configs[siteIdx]), TRUE)
            /\ dPc' = "newPage"
            /\ UNCHANGED <<allResults, resLog, siteIdx, mainPc>>
    /\ UNCHANGED <<configs, netMode>>
    /\ UNCHANGED <<root, cIdx, robotsSitemaps, robotsRead, robotsText, visited, stack, fetchLog,
                   homeMatches, pagesOpen, homeSeen>>
    /\ UNCHANGED notDVars

\* const page = await browser.newPage(); a rejection is swallowed by the outer
\* try of step 3
DOpenPage ==
    /\ mainPc = "site" /\ dPc = "newPage"
    /\ \E ok \in NewPageOptions(netMode) :
         IF ok
         THEN /\ pagesOpen' = pagesOpen + 1
              /\ dPc' = "scan"
              /\ UNCHANGED homeMatches
         ELSE /\ homeMatches' = <<>>
              /\ dPc' = "return"
              /\ UNCHANGED pagesOpen
    /\ UNCHANGED <<root, cIdx, robotsSitemaps, robotsRead, robotsText, visited, stack, allLocs,
                   fetchLog, sitemapMatches, homeSeen>>
    /\ UNCHANGED mainVars
    /\ UNCHANGED notDVars

\* matchesFromHome = await findFromHomepage(page, root, patterns), then
\* getSocialsFromPage(page), which never throws
DScan ==
    /\ mainPc = "site" /\ dPc = "scan"
    /\ \E h \in HomeOptions(netMode) :
         /\ homeMatches' = findFromHomepage(h, root, PatternsOf(configs[siteIdx]),
                                            configs[siteIdx].badPatterns)
         /\ homeSeen' = h
    /\ dPc' = "close"
    /\ UNCHANGED <<root, cIdx, robotsSitemaps, robotsRead, robotsText, visited, stack, allLocs,
                   fetchLog, sitemapMatches, pagesOpen>>
    /\ UNCHANGED mainVars
    /\ UNCHANGED notDVars

\* (mutant) the page is closed only when page.goto resolved
PagesAfterScanNoFinally(open, h) == IF h.kind = "throw" THEN open ELSE open - 1

\* the pages open after the try/finally around the scan: finally runs
\* page.close() whatever page.goto did (h)
PagesAfterScan(open, h) == open - 1

\* finally { await page.close(); }
DClosePage ==
    /\ mainPc = "site" /\ dPc = "close"
    /\ pagesOpen' = PagesAfterScan(pagesOpen, homeSeen)
    /\ dPc' = "return"
    /\ UNCHANGED <<root, cIdx, robotsSitemaps, robotsRead, robotsText, visited, stack, allLocs,
                   fetchLog, sitemapMatches, homeMatches, homeSeen>>
    /\ UNCHANGED mainVars
    /\ UNCHANGED notDVars

\* findBlogForRoot returned res: matches, strictMatches, allResults.push(...)
MainRecord ==
    /\ mainPc = "site" /\ dPc = "return"
    /\ LET cfg == configs[siteIdx]
           matches == ChooseMatches(sitemapMatches, homeMatches)
           strictMatches == findMatches(matches, PatternsOf(cfg), cfg.rootOnly)
       IN  IF cfg.badPatterns /\ matches # <<>>
           THEN allResults' = Append(allResults,
                    ErrorEntry(root, PatternsOf(cfg), "pat.toLowerCase is not a function"))
           ELSE allResults' = Append(allResults,
                    MatchesEntry(root, PatternsOf(cfg), strictMatches))
    /\ resLog' = Append(resLog, [site |-> siteIdx, threw |-> FALSE,
                                raised |-> (configs[siteIdx].badPatterns /\
                                    ChooseMatches(sitemapMatches, homeMatches) # <<>>),
                                sitemap |-> sitemapMatches, homepage |-> homeMatches,
                                robots |-> robotsRead,
                                home |-> AnchorsRead(homeSeen)])
    /\ siteIdx' = siteIdx + 1
    /\ mainPc' = "loop"
    /\ dPc' = "none"
    /\ UNCHANGED <<configs, netMode>>
    /\ UNCHANGED <<root, cIdx, robotsSitemaps, robotsRead, robotsText, visited, stack, allLocs,
                   fetchLog, sitemapMatches, homeMatches, pagesOpen, homeSeen>>
    /\ UNCHANGED notDVars

\* the sitemap phase of findBlogForRoot (steps 1 and 2 and the cleaning)
SitemapNext ==
    \/ MainNextSite
    \/ DCandidate
    \/ DAfterCandidates
    \/ DRobotsSitemap
    \/ DStepPage
    \/ DStepNested
    \/ DReturn
    \/ DFinish

DNext ==
    \/ MainNextSite
    \/ MainFinish
    \/ DCandidate
    \/ DAfterCandidates
    \/ DRobotsSitemap
    \/ DStepPage
    \/ DStepNested
    \/ DReturn
    \/ DFinish
    \/ DOpenPage
    \/ DScan
    \/ DClosePage
    \/ MainRecord

(***************************************************************************)
(* requestStructured                                                       *)
(***************************************************************************)
\* const maxAttempts = opts.maxAttempts || 3   (0 and undefined are falsy)
DefaultMaxAttempts == 3

maxAttempts(opts) ==
    IF opts = <<>> THEN DefaultMaxAttempts
    ELSE IF opts[1] = 0 THEN DefaultMaxAttempts ELSE opts[1]

\* (mutant) retries: maxAttempts, one retry too many
retriesOffByOne(opts) == maxAttempts(opts)

\* retries: Math.max(0, maxAttempts - 1)
retries(opts) ==
    IF maxAttempts(opts) - 1 > 0 THEN maxAttempts(opts) - 1 ELSE 0

NoUsage == [present |-> FALSE, total |-> 0]

\* (mutant) the usage of the response is never picked up
extractUsageDropped(resp) == NoUsage

\* extractUsageFromResp: null when the response carries no usage object,
\* else the normalized counters (the model keeps the total).
extractUsageFromResp(resp) ==
    IF resp.usage.present THEN resp.usage ELSE NoUsage

\* What JSON.parse makes of the candidate substring of a text:
\*   "syntax"  the candidate is not JSON (JSON.parse throws)
\*   "falsy"   it parses to null, 0, false or ""
\*   "invalid" it parses to a truthy value the schema rejects
\*   "valid"   it parses to an object the schema accepts
ParseClasses == {"syntax", "falsy", "invalid", "valid"}

\* The text of a response after shape normalization; "none" when no shape
\* yields text (outText stays null or empty).
TextOf(resp) == resp.text

\* safeParseJsonFromText: null for an empty text, a text whose candidate does
\* not parse; otherwise the parsed value.  The value is kept as its class.
safeParseJsonFromText(text) ==
    IF text.class = "none" THEN "null"
    ELSE IF text.class = "syntax" THEN "null"
    ELSE text.class

\* (mutant) the parsed value is not tested before validation
NotCandidateSkipped(candidate) == FALSE

\* `if (!candidate)`: null and every falsy parsed value
NotCandidate(candidate) == candidate \in {"null", "falsy"}

\* schemaZod.safeParse(candidate): the callers' schemas are z.object(...), so
\* only a truthy object can be valid; a failure carries at least one issue.
safeParse(candidate) ==
    IF candidate = "valid"
    THEN [success |-> TRUE, issues |-> <<>>]
    ELSE [success |-> FALSE, issues |-> <<"invalid_type">>]

\* class RetryableError: code, raw (props.raw || null), usage (props.usage ||
\* null), issues (props.issues || null; <<>> stands for null)
RetryableError(code, raw, usage, issues) ==
    [code |-> code, raw |-> raw, usage |-> usage, issues |-> issues]

\* shortSerialize(resp): the serialized response, capped at 2000 characters
shortSerialize(resp) == [class |-> "serialized", id |-> resp.text.id]

\* attemptFn after client.responses.create settled with `resp`: either the
\* returned value (ok) or the RetryableError it throws; ran lists the steps
\* it ran on the response: the outText assembly ("text"),
\* safeParseJsonFromText ("parse"), schemaZod.safeParse ("validate").
attemptFn(resp) ==
    IF resp.threw
    THEN [ok |-> FALSE, ran |-> <<>>,
          err |-> RetryableError("request_failed", [class |-> "exception", id |-> 0],
                                 NoUsage, <<>>)]
    ELSE LET usage == extractUsageFromResp(resp)
             outText == TextOf(resp)
             candidate == safeParseJsonFromText(outText)
             result == safeParse(candidate)
         IN  IF outText.class = "none"
             THEN [ok |-> FALSE, ran |-> <<"text">>,
                   err |-> RetryableError("parse_failed", shortSerialize(resp), usage, <<>>)]
             ELSE IF NotCandidate(candidate)
             THEN [ok |-> FALSE, ran |-> <<"text", "parse">>,
                   err |-> RetryableError("parse_failed", shortSerialize(resp), usage, <<>>)]
             ELSE IF result.success
             THEN [ok |-> TRUE, ran |-> <<"text", "parse", "validate">>,
                   val |-> [data |-> <<"data", outText.id>>,
                            raw |-> outText,
                            usage |-> usage]]
             ELSE [ok |-> FALSE, ran |-> <<"text", "parse", "validate">>,
                   err |-> RetryableError("validation_failed", outText,
                                          usage, result.issues)]

\* (mutant) the final catch returns a partially filled object
FinalCatchPartial(finalErr) == [error |-> finalErr.code, raw |-> finalErr.raw]

\* (mutant) the final catch lets the error escape to the caller
FinalCatchRethrow(finalErr) == [thrown |-> finalErr.code]

\* catch (finalErr): the Failure object requestStructured returns
FinalCatch(finalErr) ==
    LET obj == [error |-> finalErr.code, message |-> finalErr.code,
                raw |-> finalErr.raw, usage |-> finalErr.usage]
    IN  IF finalErr.issues # <<>>
        THEN [error |-> obj.error, message |-> obj.message, raw |-> obj.raw,
              usage |-> obj.usage, issues |-> finalErr.issues]
        ELSE obj

\* p-retry: the n-th retry waits min(minTimeout * factor^(n-1), maxTimeout)
minTimeout == 500
maxTimeout == 5000
factor == 2

RECURSIVE Pow(_, _)
Pow(b, e) == IF e = 0 THEN 1 ELSE b * Pow(b, e - 1)

Min(a, b) == IF a < b THEN a ELSE b

\* (mutant) the delay is not capped at maxTimeout
RetryDelayUncapped(n) == minTimeout * Pow(factor, n - 1)

RetryDelay(n) == Min(minTimeout * Pow(factor, n - 1), maxTimeout)

\* p-retry runs attemptFn again while fewer than retries + 1 attempts were made
RetriesLeft(opts, made) == (retries(opts) + 1) - made

Usages == {NoUsage} \cup {[present |-> TRUE, total |-> t] : t \in 1..MaxTokens}

Texts == {[class |-> "none", id |-> 0]} \cup
         {[class |-> c, id |-> i] : c \in ParseClasses, i \in 1..MaxTextId}

\* What one call of client.responses.create can do
Responses ==
    {[threw |-> TRUE, text |-> [class |-> "none", id |-> 0], usage |-> NoUsage]} \cup
    {[threw |-> FALSE, text |-> t, usage |-> u] : t \in Texts, u \in Usages}

RSIdle ==
    /\ rsOpts = <<>> /\ rsPc = "idle" /\ rsCalls = <<>>
    /\ rsErr = <<>> /\ rsDelays = <<>> /\ rsResult = <<>>

RSInit ==
    /\ rsOpts \in {<<>>} \cup {<<n>> : n \in 1..MaxAttemptsOpt}
    /\ rsPc = "call"
    /\ rsCalls = <<>>
    /\ rsErr = <<>>
    /\ rsDelays = <<>>
    /\ rsResult = <<>>

\* (mutant) the error of an earlier attempt is the one rejected with
pRetryEarlierError(prev, cur) == IF prev # <<>> THEN prev[1] ELSE cur

\* what pRetry rejects with once the retries are used up: the error of the
\* attempt just made (cur), not the one kept from the attempt before (prev)
pRetryFinalError(prev, cur) == cur

\* One run of attemptFn under p-retry: the service call (answering with one
\* of resps), then either the return of the value, a scheduled retry, or the
\* final catch.
RSAttemptFrom(resps) ==
    /\ rsPc = "call"
    /\ \E resp \in resps :
         LET r == attemptFn(resp)
             made == Len(rsCalls) + 1
         IN  /\ rsCalls' = Append(rsCalls, resp)
             /\ IF r.ok
                THEN /\ rsResult' = <<r.val>>
                     /\ rsPc' = "done"
                     /\ rsErr' = rsErr
                ELSE IF RetriesLeft(rsOpts, made) > 0
                THEN /\ rsErr' = <<r.err>>
                     /\ rsPc' = "backoff"
                     /\ rsResult' = rsResult
                ELSE /\ rsErr' = <<r.err>>
                     /\ rsResult' = <<FinalCatch(pRetryFinalError(rsErr, r.err))>>
                     /\ rsPc' = "done"
    /\ UNCHANGED <<rsOpts, rsDelays>>
    /\ UNCHANGED notRsVars

\* p-retry's timer between a failed attempt and the next one
RSBackoff ==
    /\ rsPc = "backoff"
    /\ rsDelays' = Append(rsDelays, RetryDelay(Len(rsDelays) + 1))
    /\ rsPc' = "call"
    /\ UNCHANGED <<rsOpts, rsCalls, rsErr, rsResult>>
    /\ UNCHANGED notRsVars

RSAttempt == RSAttemptFrom(Responses)

RSNext == RSAttempt \/ RSBackoff

\* A service that is down or slow to recover: it throws, answers without
\* text, or at last answers well.  Against it the model follows budgets up
\* to MaxRetryAttempts, long enough for the backoff to reach maxTimeout.
OutageResponses ==
    { [threw |-> TRUE, text |-> [class |-> "none", id |-> 0], usage |-> NoUsage],
      [threw |-> FALSE, text |-> [class |-> "none", id |-> 0], usage |-> NoUsage],
      [threw |-> FALSE, text |-> [class |-> "valid", id |-> 1], usage |-> NoUsage] }

RSOutageInit ==
    /\ rsOpts \in {<<>>} \cup {<<n>> : n \in 1..MaxRetryAttempts}
    /\ rsPc = "call"
    /\ rsCalls = <<>>
    /\ rsErr = <<>>
    /\ rsDelays = <<>>
    /\ rsResult = <<>>

RSOutageAttempt == RSAttemptFrom(OutageResponses)

RSOutageNext == RSOutageAttempt \/ RSBackoff

(***************************************************************************)
(* safeParseJsonFromText, character by character                           *)
(***************************************************************************)
\* The characters of the texts: the four JSON brackets and a letter of prose
TextChars == {"{", "}", "[", "]", "x"}

\* JSON.parse(candidate) returns instead of throwing.  Over TextChars the
\* JSON documents are {}, [] and [v] with v one of them (a letter is not
\* JSON, an object member needs a key, two elements need a comma).
RECURSIVE IsJSON(_)
IsJSON(c) ==
    \/ c = <<"{", "}">>
    \/ /\ Len(c) >= 2
       /\ c[1] = "[" /\ c[Len(c)] = "]"
       /\ (Len(c) = 2 \/ IsJSON(SubSeq(c, 2, Len(c) - 1)))

\* the largest index of text holding ch, 0 if there is none
LastIndexOf(text, ch) ==
    LET S == {j \in 1..Len(text) : text[j] = ch}
    IN  IF S = {} THEN 0 ELSE CHOOSE j \in S : \A k \in S : k <= j

\* /\{[\s\S]*\}|\[[\s\S]*\]/ tried at index i: [\s\S]* is greedy, so a match
\* that starts at an opening bracket runs to the LAST closing bracket of its
\* kind in the text.  The end index of the match, 0 if there is none at i.
MatchEndAt(text, i) ==
    IF text[i] = "{" /\ LastIndexOf(text, "}") > i THEN LastIndexOf(text, "}")
    ELSE IF text[i] = "[" /\ LastIndexOf(text, "]") > i THEN LastIndexOf(text, "]")
    ELSE 0

\* text.match(...): <<>> for null, else <<m[0]>>, the leftmost match
TextMatch(text) ==
    LET starts == {i \in 1..Len(text) : MatchEndAt(text, i) > 0}
    IN  IF starts = {} THEN <<>>
        ELSE LET i == CHOOSE a \in starts : \A b \in starts : a <= b
             IN  <<SubSeq(text, i, MatchEndAt(text, i))>>

\* safeParseJsonFromText on the characters of the text: <<>> for null, else
\* <<value>>; a parsed value is kept as the JSON document it was parsed from.
\* (In the retry model above the same function is applied to the class of
\* the text, which is the class of this result.)
safeParseJsonFromChars(text) ==
    IF text = <<>> THEN <<>>
    ELSE LET m == TextMatch(text)
             candidate == IF m # <<>> THEN m[1] ELSE text
         IN  IF IsJSON(candidate) THEN <<candidate>> ELSE <<>>

PIdle == pText = <<>> /\ pPc = "idle" /\ pParsed = <<>>

PInit ==
    /\ pText \in SeqsUpTo(TextChars, MaxTextLen)
    /\ pPc = "ready"
    /\ pParsed = <<>>

\* const candidate = safeParseJsonFromText(outText)
PCall ==
    /\ pPc = "ready"
    /\ pParsed' = safeParseJsonFromChars(pText)
    /\ pPc' = "done"
    /\ UNCHANGED pText
    /\ UNCHANGED notPVars

PNext == PCall

(***************************************************************************)
(* attemptFn: the assembly of outText from the shapes of the response      *)
(***************************************************************************)
\* texts a shape may carry: empty, blank, and two that differ
TxtEmpty == <<>>
TxtBlank == <<" ">>
TxtA == <<"a">>
TxtPadB == <<" ", "b">>
ShapeTexts == {TxtEmpty, TxtBlank, TxtA, TxtPadB}

IsSpace(ch) == ch \in {" ", "\n"}

\* String.prototype.trim
RECURSIVE trim(_)
trim(t) ==
    IF t = <<>> THEN <<>>
    ELSE IF IsSpace(t[1]) THEN trim(Tail(t))
    ELSE IF IsSpace(t[Len(t)]) THEN trim(SubSeq(t, 1, Len(t) - 1))
    ELSE t

\* Array.prototype.join('\n')
RECURSIVE join(_)
join(parts) ==
    IF parts = <<>> THEN <<>>
    ELSE IF Len(parts) = 1 THEN parts[1]
    ELSE parts[1] \o <<"\n">> \o join(Tail(parts))

\* a content block: an object with a text property, a bare string, or an
\* object without text
TextBlock(t) == [kind |-> "text", text |-> t]
StringBlock(t) == [kind |-> "string", text |-> t]
OtherBlock == [kind |-> "other", text |-> <<>>]

\* c => (c.text || (typeof c === 'string' ? c : ''))
BlockText(c) == IF c.kind \in {"text", "string"} THEN c.text ELSE <<>>

\* the content arrays of the model
Contents ==
    { <<>>, <<TextBlock(TxtA)>>, <<TextBlock(TxtEmpty)>>, <<StringBlock(TxtPadB)>>,
      <<OtherBlock>>, <<TextBlock(TxtA), StringBlock(TxtPadB)>>,
      <<OtherBlock, TextBlock(TxtPadB)>> }

\* an element of resp.output: a string, or an item whose content is either
\* an array (<<blocks>>) or not one (<<>>), such as a reasoning item
StringElem(t) == [kind |-> "string", text |-> t, content |-> <<>>]
Item(c) == [kind |-> "item", text |-> <<>>, content |-> c]
Elements ==
    {StringElem(t) : t \in ShapeTexts} \cup {Item(<<>>)} \cup {Item(<<c>>) : c \in Contents}

\* first.content.map(...).join('\n').trim()
ContentText(first) ==
    trim(join([k \in 1..Len(first.content[1]) |-> BlockText(first.content[1][k])]))

\* resp: output_text is <<>> (not a string) or <<text>>, output is <<>> (not
\* an array) or <<elements>>
ShapeResponses ==
    [output_text : {<<>>} \cup {<<t>> : t \in ShapeTexts},
     output : {<<>>} \cup {<<o>> : o \in SeqsUpTo(Elements, MaxOutput)}]

\* lines 69-80: outText, <<>> for null
OutTextOf(resp) ==
    IF resp.output_text # <<>> /\ trim(resp.output_text[1]) # <<>>
    THEN <<trim(resp.output_text[1])>>
    ELSE IF resp.output # <<>> /\ Len(resp.output[1]) > 0
    THEN LET first == resp.output[1][1]
         IN  IF first.kind = "item" /\ first.content # <<>>
             THEN <<ContentText(first)>>
             ELSE IF first.kind = "string"
             THEN <<first.text>>
             ELSE <<>>
    ELSE <<>>

\* if (!outText): null and the empty string
NoText(outText) == outText = <<>> \/ outText[1] = <<>>

NIdle == nResp = <<>> /\ nPc = "idle" /\ nOutText = <<>>

NInit ==
    /\ nResp \in ShapeResponses
    /\ nPc = "ready"
    /\ nOutText = <<>>

\* lines 69-86 of one attempt
NAssemble ==
    /\ nPc = "ready"
    /\ nOutText' = OutTextOf(nResp)
    /\ nPc' = IF NoText(OutTextOf(nResp)) THEN "no_text" ELSE "text"
    /\ UNCHANGED nResp
    /\ UNCHANGED notNVars

NNext == NAssemble

(***************************************************************************)
(* The blog URL loop of the post-extraction stages (extract-posts.js main, *)
(* and the variant that asks the jinai reader first)                       *)
(***************************************************************************)
XIdle ==
    /\ xStage = "html" /\ xCount = 0 /\ xIdx = 1 /\ xPc = "idle"
    /\ xPagesOpen = 0 /\ xLog = <<>>

XInit ==
    /\ xStage \in {"html", "jinai"}
    /\ xCount \in 0..MaxBlogUrls
    /\ xIdx = 1
    /\ xPc = "next"
    /\ xPagesOpen = 0
    /\ xLog = <<>>

\* catch (err) { console.error(...) }: the loop goes on with the next URL
XCatch(what) ==
    /\ xLog' = Append(xLog, what)
    /\ xIdx' = xIdx + 1
    /\ xPc' = "next"

\* jinai variant: callJinaiReader(blogUrl) never throws; with a text no page
\* is opened
XReader ==
    /\ xStage = "jinai" /\ xPc = "next" /\ xIdx <= xCount
    /\ \E text \in BOOLEAN : xPc' = IF text THEN "gpt" ELSE "newPage"
    /\ UNCHANGED <<xStage, xCount, xIdx, xPagesOpen, xLog>>
    /\ UNCHANGED notXVars

\* const page = await browser.newPage()
XNewPage ==
    /\ \/ xStage = "html" /\ xPc = "next" /\ xIdx <= xCount
       \/ xStage = "jinai" /\ xPc = "newPage"
    /\ \E ok \in BOOLEAN :
         IF ok
         THEN /\ xPagesOpen' = xPagesOpen + 1
              /\ xPc' = "goto"
              /\ UNCHANGED <<xIdx, xLog>>
         ELSE /\ XCatch("newPage_failed")
              /\ UNCHANGED xPagesOpen
    /\ UNCHANGED <<xStage, xCount>>
    /\ UNCHANGED notXVars

\* await page.goto(blogUrl, { waitUntil: 'domcontentloaded', timeout: 20000 })
XGoto ==
    /\ xPc = "goto"
    /\ \E ok \in BOOLEAN :
         IF ok
         THEN /\ xPc' = "clean"
              /\ UNCHANGED <<xIdx, xLog>>
         ELSE XCatch("goto_failed")
    /\ UNCHANGED <<xStage, xCount, xPagesOpen>>
    /\ UNCHANGED notXVars

\* const cleaned = await cleanPageHtml(page); await page.close()
XClean ==
    /\ xPc = "clean"
    /\ \E ok \in BOOLEAN :
         IF ok
         THEN /\ xPagesOpen' = xPagesOpen - 1
              /\ xPc' = "gpt"
              /\ UNCHANGED <<xIdx, xLog>>
         ELSE /\ XCatch("evaluate_failed")
              /\ UNCHANGED xPagesOpen
    /\ UNCHANGED <<xStage, xCount>>
    /\ UNCHANGED notXVars

\* callGpt5Nano(...) and the writing of the posts file
XExtract ==
    /\ xPc = "gpt"
    /\ \E ok \in BOOLEAN : XCatch(IF ok THEN "saved" ELSE "extract_failed")
    /\ UNCHANGED <<xStage, xCount, xPagesOpen>>
    /\ UNCHANGED notXVars

\* after the loops: await api.dispose(); await browser.close()
XFinish ==
    /\ xPc = "next" /\ xIdx > xCount
    /\ xPagesOpen' = 0
    /\ xPc' = "done"
    /\ UNCHANGED <<xStage, xCount, xIdx, xLog>>
    /\ UNCHANGED notXVars

XNext == XReader \/ XNewPage \/ XGoto \/ XClean \/ XExtract \/ XFinish

(***************************************************************************)
(* Specifications: one per component, the other components idle            *)
(***************************************************************************)
InitRS == RSInit /\ PIdle /\ NIdle /\ MIdle /\ DIdle /\ XIdle

SpecRS == InitRS /\ [][RSNext]_vars

\* requestStructured with larger attempt budgets against a failing service
InitOutage == RSOutageInit /\ PIdle /\ NIdle /\ MIdle /\ DIdle /\ XIdle

SpecOutage == InitOutage /\ [][RSOutageNext]_vars

\* safeParseJsonFromText on every text of the model
InitParse == PInit /\ RSIdle /\ NIdle /\ MIdle /\ DIdle /\ XIdle

SpecParse == InitParse /\ [][PNext]_vars

\* the blog URL loop of extract-posts and of its jinai variant
InitExtract == XInit /\ RSIdle /\ PIdle /\ NIdle /\ MIdle /\ DIdle

SpecExtract == InitExtract /\ [][XNext]_vars

\* the outText assembly on every response shape of the model
InitNormalize == NInit /\ RSIdle /\ PIdle /\ MIdle /\ DIdle /\ XIdle

SpecNormalize == InitNormalize /\ [][NNext]_vars

InitMatch == MInit /\ RSIdle /\ PIdle /\ NIdle /\ DIdle /\ XIdle

SpecMatch == InitMatch /\ [][MNext]_vars

\* findBlogForRoot for one site, with every answer the network can give
InitSitemap == SitemapInit /\ RSIdle /\ PIdle /\ NIdle /\ MIdle /\ XIdle

SpecSitemap == InitSitemap /\ [][SitemapNext]_vars

\* main over a list of site configs
InitMain == MainInit /\ RSIdle /\ PIdle /\ NIdle /\ MIdle /\ XIdle

SpecMain == InitMain /\ [][DNext]_vars

(***************************************************************************)
(* Claims about requestStructured                                          *)
(***************************************************************************)
\* A response from which attemptFn gets a schema-valid value
IsValidResp(resp) == ~resp.threw /\ resp.text.class = "valid"

IsSuccess(o) == DOMAIN o = {"data", "raw", "usage"}
IsFailure(o) == {"error", "message", "raw", "usage"} \subseteq DOMAIN o /\ "data" \notin DOMAIN o

\* The attempt budget as the claims state it: opts.maxAttempts, 3 when not given
ClaimedBudget == IF rsOpts = <<>> THEN 3 ELSE rsOpts[1]

\* C1: requestStructured calls the service at most maxAttempts times (3 when
\* maxAttempts is not given), and no service call follows an attempt that
\* produced a schema-valid value.
C1_AtMostMaxAttemptsCalls ==
    /\ Len(rsCalls) <= ClaimedBudget
    /\ \A i \in 1..Len(rsCalls) : IsValidResp(rsCalls[i]) => i = Len(rsCalls) /\ rsPc = "done"

\* C1 witness: the default budget used up, and a run that stopped early on a
\* valid value
C1_Witness ==
    /\ rsOpts = <<>> /\ rsPc = "done" /\ Len(rsCalls) = 3
    /\ ~IsValidResp(rsCalls[3])

\* C2: if attempts 1..k-1 fail and attempt k (k <= maxAttempts) yields
\* schema-valid JSON, requestStructured returns Success after exactly k service
\* calls, with the usage and raw text of attempt k alone.
C2_SuccessAtFirstValidAttempt ==
    \A k \in 1..Len(rsCalls) :
        IsValidResp(rsCalls[k]) =>
            /\ rsPc = "done"
            /\ Len(rsCalls) = k
            /\ Len(rsResult) = 1
            /\ IsSuccess(rsResult[1])
            /\ rsResult[1].raw = rsCalls[k].text
            /\ rsResult[1].usage = rsCalls[k].usage

\* C2 witness: a non-JSON first attempt that reported usage, then a valid
\* second attempt that reported usage
C2_Witness ==
    /\ Len(rsCalls) = 2
    /\ ~rsCalls[1].threw /\ rsCalls[1].text.class = "syntax" /\ rsCalls[1].usage.present
    /\ IsValidResp(rsCalls[2]) /\ rsCalls[2].usage.present
    /\ rsPc = "done"

\* The text of the response is JSON that JSON.parse accepts and that the
\* schema rejects (null, 0 and false are JSON too)
IsParseableInvalidResp(resp) == ~resp.threw /\ resp.text.class \in {"falsy", "invalid"}

\* C3: when every one of the maxAttempts attempts yields parseable JSON that
\* fails the schema, requestStructured returns a Failure whose error kind is
\* validation_failed and whose issues list is non-empty.
C3_ExhaustedIsValidationFailed ==
    ( /\ rsPc = "done"
      /\ Len(rsCalls) = ClaimedBudget
      /\ \A i \in 1..Len(rsCalls) : IsParseableInvalidResp(rsCalls[i]) )
    => /\ Len(rsResult) = 1
       /\ IsFailure(rsResult[1])
       /\ rsResult[1].error = "validation_failed"
       /\ "issues" \in DOMAIN rsResult[1]
       /\ rsResult[1].issues # <<>>

\* C4: requestStructured never throws because of the service: a service
\* exception is retried while attempts remain, and once they run out the
\* caller receives a returned Failure (request_failed when the last attempt
\* was the exception).
C4_ServiceExceptionNeverEscapes ==
    /\ \A i \in 1..Len(rsCalls) :
         (rsCalls[i].threw /\ i < ClaimedBudget) =>
             (Len(rsCalls) > i \/ rsPc \in {"backoff", "call"})
    /\ rsPc = "done" =>
         /\ Len(rsResult) = 1
         /\ "thrown" \notin DOMAIN rsResult[1]
         /\ IsSuccess(rsResult[1]) \/ IsFailure(rsResult[1])
         /\ rsCalls[Len(rsCalls)].threw =>
              IsFailure(rsResult[1]) /\ rsResult[1].error = "request_failed"

\* C4 witness: the service threw in every attempt and the attempts ran out
C4_Witness ==
    /\ rsPc = "done"
    /\ Len(rsCalls) = 3
    /\ \A i \in 1..3 : rsCalls[i].threw

(***************************************************************************)
(* Claims about findMatches                                                *)
(***************************************************************************)
InList(list, x) == \E i \in 1..Len(list) : list[i] = x

\* C8: for parseable URLs, findMatches with rootOnly=true returns a URL iff
\* its lower-cased path equals some lower-cased pattern or that pattern plus
\* one '/', and with rootOnly=false iff its lower-cased path contains some
\* lower-cased pattern; for {https://x.com/blog/, https://x.com/blog/post-1}
\* and /blog it returns only the first under rootOnly=true and both otherwise.
C8_FindMatchesRule ==
    mPc = "done" =>
        /\ \A i \in 1..Len(mUrls) :
             ParseURL(mUrls[i]).ok =>
                 LET path == toLowerCase(ParseURL(mUrls[i]).pathname)
                     hit == \E k \in 1..Len(mPatterns) :
                              LET pat == toLowerCase(mPatterns[k])
                              IN  (mRootOnly /\ (path = pat \/ path = Append(pat, "/")))
                                  \/ (~mRootOnly /\ includes(path, pat))
                 IN  InList(mResult, mUrls[i]) <=> hit
        /\ (mUrls = <<UrlBlogSlash, UrlBlogPost1>> /\ mPatterns = <<PatBlog>>) =>
             mResult = IF mRootOnly THEN <<UrlBlogSlash>>
                       ELSE <<UrlBlogSlash, UrlBlogPost1>>

\* C8 witness: the example of the claim under root-only matching
C8_Witness ==
    /\ mPc = "done"
    /\ mUrls = <<UrlBlogSlash, UrlBlogPost1>>
    /\ mPatterns = <<PatBlog>>
    /\ mRootOnly
    /\ mResult = <<UrlBlogSlash>>

(***************************************************************************)
(* Claims about sitemap expansion                                          *)
(***************************************************************************)
\* the sitemap phase of the current site is over
SitemapPhaseDone == mainPc = "site" /\ dPc = "newPage"

Range(list) == {list[k] : k \in 1..Len(list)}

\* the fetches of the current site
SiteFetches == {k \in 1..Len(fetchLog) : fetchLog[k].site = siteIdx}

LocsOfFetch(k) == IF fetchLog[k].ans.kind = "text" THEN Range(fetchLog[k].ans.locs) ELSE {}

\* the sitemap phase of the current site is running
Expanding == mainPc = "site" /\ dPc \in {"candidates", "robots", "finish"}

\* the hrefs of the sitemap documents of the (finite) graph
SitemapHrefs == {ParsedKnown[u].href : u \in {x \in KnownUrls : ParsedKnown[x].ok}}

RECURSIVE LocsLeft(_)
LocsLeft(st) == IF st = <<>> THEN 0 ELSE Len(Head(st).locs) + 1 + LocsLeft(Tail(st))

\* what is left of the expansion: the phase, the top-level calls to come, the
\* documents not yet visited, the locations and returns of the open calls
Measure ==
    << CASE dPc = "candidates" -> 3 [] dPc = "robots" -> 2 [] dPc = "finish" -> 1
         [] OTHER -> 0,
       CASE dPc = "candidates" -> 5 - cIdx [] dPc = "robots" -> Len(robotsSitemaps)
         [] OTHER -> 0,
       Cardinality(SitemapHrefs \ visited),
       LocsLeft(stack) >>

RECURSIVE LexLess(_, _)
LexLess(a, b) ==
    IF a = <<>> THEN FALSE
    ELSE Head(a) < Head(b) \/ (Head(a) = Head(b) /\ LexLess(Tail(a), Tail(b)))

\* C5: sitemap expansion terminates on every finite sitemap graph, cycles and
\* self-references included: every step of the expansion strictly lowers a
\* tuple of natural numbers in lexicographic order, so no expansion can go on
\* for ever.
C5_SitemapExpansionTerminates ==
    [][Expanding => /\ \A k \in 1..4 : Measure[k] \in Nat /\ Measure'[k] \in Nat
                    /\ LexLess(Measure', Measure)]_vars

\* C5 witness: expansion ended on a graph where a.xml lists itself and b.xml,
\* and b.xml lists a.xml
C5_Witness ==
    /\ SitemapPhaseDone
    /\ \E ka, kb \in SiteFetches :
         /\ fetchLog[ka].url = SmA /\ {SmA, SmB} \subseteq LocsOfFetch(ka)
         /\ fetchLog[kb].url = SmB /\ SmA \in LocsOfFetch(kb)

\* C6: within one site's run each normalized sitemap URL is fetched at most
\* once, over candidates, robots.txt sitemaps and nested sitemaps, whether the
\* fetch succeeded or failed.
C6_EachSitemapFetchedOnce ==
    \A j, k \in 1..Len(fetchLog) :
        (fetchLog[j].site = fetchLog[k].site /\ fetchLog[j].url = fetchLog[k].url) => j = k

\* C6 witness: the fetch of a.xml failed, and the document that listed it
\* listed it again under another spelling of the same URL
C6_Witness ==
    /\ SitemapPhaseDone
    /\ \E ka, kp \in SiteFetches :
         /\ fetchLog[ka].url = SmA /\ fetchLog[ka].ans.kind # "text"
         /\ {SmA, SmACaps} \subseteq LocsOfFetch(kp)

\* the sitemap documents a fetched document refers to, by href
NestedOf(k) ==
    {NewURL(l).href : l \in {x \in LocsOfFetch(k) : IsSitemapLoc(x) /\ NewURL(x).ok}}

FetchedUrls == {fetchLog[k].url : k \in SiteFetches}

FetchOf(u) == CHOOSE k \in SiteFetches : fetchLog[k].url = u

RECURSIVE ReachableFrom(_, _)
ReachableFrom(S, n) ==
    IF n = 0 THEN S
    ELSE ReachableFrom(S \cup UNION {NestedOf(FetchOf(u)) : u \in S \cap FetchedUrls}, n - 1)

\* the fetched documents refer to one another without a cycle
Acyclic ==
    \A k \in SiteFetches :
        fetchLog[k].url \notin ReachableFrom(NestedOf(k), Cardinality(SiteFetches))

AllFetchesSucceeded ==
    /\ \A k \in SiteFetches : fetchLog[k].ans.kind = "text" /\ fetchLog[k].depth <= MaxDepth
    /\ \A c \in Range(getSitemapCandidates(root)) : c \in FetchedUrls

\* the page locations of every document reachable from the candidates
ReachablePageLocs ==
    UNION {{l \in LocsOfFetch(FetchOf(u)) : ~IsSitemapLoc(l)} :
              u \in ReachableFrom(Range(getSitemapCandidates(root)),
                                  Cardinality(SiteFetches)) \cap FetchedUrls}

C9_EverySiteGetsAnEntry ==
    /\ mainPc # "crashed"
    /\ mainPc = "done" => Len(allResults) = Len(configs)

\* the example site of C10: plain config, no sitemap document exists,
\* robots.txt was read and named no sitemap, the homepage has the anchors
\* /blog and /blog/archive
IsExampleSite(k) ==
    /\ configs[resLog[k].site] = Cfg(Origin, TRUE, <<>>, FALSE)
    /\ resLog[k].robots
    /\ \A j \in 1..Len(fetchLog) :
           fetchLog[j].site = resLog[k].site =>
               /\ fetchLog[j].ans.kind # "text"
               /\ fetchLog[j].url \in Range(getSitemapCandidates(Origin))
    /\ resLog[k].home = <<RelBlog, RelBlogArchive>>

\* the matches main takes from res, as the claim words it
ClaimedSource(k) ==
    IF resLog[k].sitemap # <<>> THEN resLog[k].sitemap ELSE resLog[k].homepage

\* C10: the matches recorded for a site are those of the sitemap matches when
\* there are any and those of the homepage matches only when there are none;
\* the example site records exactly <origin>/blog.
C10_MatchesPreferSitemap ==
    \A k \in 1..Len(resLog) :
        ~resLog[k].threw /\ "matches" \in DOMAIN allResults[k] =>
            /\ allResults[k].matches =
                  findMatches(ClaimedSource(k), PatternsOf(configs[resLog[k].site]),
                              configs[resLog[k].site].rootOnly)
            /\ Range(allResults[k].matches) \subseteq Range(ClaimedSource(k))
            /\ IsExampleSite(k) => allResults[k].matches = <<Origin \o PatBlog>>

\* C10 witness: the run is over; one site had sitemap matches and other
\* homepage matches, and the example site was recorded
C10_Witness ==
    /\ mainPc = "done"
    /\ \E k \in 1..Len(resLog) :
         /\ ~resLog[k].threw
         /\ resLog[k].sitemap # <<>> /\ resLog[k].homepage # <<>>
         /\ resLog[k].sitemap # resLog[k].homepage
    /\ \E k \in 1..Len(resLog) : ~resLog[k].threw /\ IsExampleSite(k)

\* the entry recorded last; allLocs still holds the page URLs its sitemaps gave
LastRecorded == Len(resLog)

\* the path of u contains one of the patterns
PathContainsPattern(u, patterns) ==
    /\ NewURL(u).ok
    /\ \E k \in 1..Len(patterns) :
          includes(toLowerCase(NewURL(u).pathname), toLowerCase(patterns[k]))

\* C11: for a site configured with rootOnly = false, every sitemap page URL
\* whose path contains a configured pattern is among the site's recorded
\* matches.
C11_SubstringMatchesRecorded ==
    (mainPc \in {"loop", "done"} /\ resLog # <<>>) =>
        LET cfg == configs[resLog[LastRecorded].site]
        IN  (~cfg.rootOnly /\ "matches" \in DOMAIN allResults[LastRecorded]) =>
                \A u \in Range(allLocs) :
                    PathContainsPattern(u, PatternsOf(cfg)) =>
                        u \in Range(allResults[LastRecorded].matches)

\* the Sitemap: values of the robots.txt the site got, the name compared
\* without regard to case
SitemapDirectives ==
    {robotsText[k].value :
        k \in {j \in 1..Len(robotsText) : toLowerCase(robotsText[j].key) = SitemapKeyLower}}

\* the expansion was entered for the robots.txt sitemap v: its document was
\* fetched in this site's run (by this call, or by a candidate's expansion
\* that had visited it before)
ResolvedFromRobots(v) ==
    NewURL(v).ok => \E k \in SiteFetches : fetchLog[k].url = NewURL(v).href

C13_NoFetchBeyondMaxDepth ==
    \A k \in 1..Len(fetchLog) :
        /\ fetchLog[k].depth <= MaxDepth
        /\ fetchLog[k].depth > 0 =>
              \E j \in 1..(k - 1) :
                  /\ fetchLog[j].site = fetchLog[k].site
                  /\ fetchLog[j].depth = fetchLog[k].depth - 1
                  /\ \E l \in LocsOfFetch(j) : NewURL(l).ok /\ NewURL(l).href = fetchLog[k].url

\* C13 witness: a document was fetched at depth 6, it lists a further sitemap,
\* and the expansion ended without fetching that one
C13_Witness ==
    /\ SitemapPhaseDone
    /\ \E k \in SiteFetches :
         /\ fetchLog[k].depth = MaxDepth
         /\ \E l \in LocsOfFetch(k) :
               /\ IsSitemapLoc(l) /\ NewURL(l).ok
               /\ \A j \in SiteFetches : fetchLog[j].url # NewURL(l).href

\* the fetch gave no document, or one without <loc>
GaveNothing(k) == LocsOfFetch(k) = {}

\* C14: the sitemap phase never raises.  A candidate or nested sitemap whose
\* fetch throws, is not ok or has no <loc> contributes no URL; the other
\* candidates and nested sitemaps are tried all the same; when all of them
\* fail the result is the empty list.
C14_SitemapPhaseNeverRaises ==
    /\ mainPc = "site" => allResults = <<>> /\ resLog = <<>>
    /\ mainPc # "crashed"
    /\ SitemapPhaseDone =>
          /\ Range(allLocs) \subseteq UNION {LocsOfFetch(k) : k \in SiteFetches}
          /\ Range(getSitemapCandidates(root)) \subseteq FetchedUrls
          /\ \A k \in SiteFetches :
                fetchLog[k].depth < MaxDepth => NestedOf(k) \subseteq FetchedUrls
          /\ (\A k \in SiteFetches : GaveNothing(k)) =>
                allLocs = <<>> /\ sitemapMatches = <<>>

\* C14 witness: the fetch of the first candidate threw and a later candidate
\* still gave its page
C14_Witness ==
    /\ SitemapPhaseDone
    /\ \E k \in SiteFetches : fetchLog[k].url = Cand1 /\ fetchLog[k].ans.kind = "throw"
    /\ \E k \in SiteFetches : fetchLog[k].url = Cand2 /\ UrlBlog \in LocsOfFetch(k)
    /\ allLocs = <<UrlBlog>>

\* page.goto rejected (a timeout included), resolved to no response, or to a
\* response with a status of 400 or more
HomepageFailed ==
    \/ homeSeen.kind \in {"throw", "null"}
    \/ homeSeen.kind = "page" /\ homeSeen.status >= 400

\* C15: findFromHomepage returns the empty list and does not throw when the
\* navigation throws or times out, when there is no response, or when the
\* status is 400 or more: the homepage matches are empty and the site is
\* recorded with a result, not with an error.
C15_HomepageFailureGivesEmpty ==
    /\ (mainPc = "site" /\ dPc \in {"close", "return"} /\ HomepageFailed) =>
          homeMatches = <<>>
    /\ (mainPc \in {"loop", "done"} /\ resLog # <<>> /\ HomepageFailed) =>
          /\ ~resLog[LastRecorded].threw
          /\ resLog[LastRecorded].homepage = <<>>
          /\ "error" \notin DOMAIN allResults[LastRecorded]

\* C15 witness: the homepage answered 404 with an anchor /blog in its body,
\* and the site was recorded
C15_Witness ==
    /\ mainPc = "loop" /\ resLog # <<>>
    /\ homeSeen.kind = "page" /\ homeSeen.status >= 400
    /\ RelBlog \in Range(homeSeen.anchors)

(***************************************************************************)
(* Claims about the outcome and the text handling of requestStructured     *)
(***************************************************************************)
\* C16: every value requestStructured returns is exactly one of two shapes:
\* Success (data, raw, usage, no error field) or Failure (error, message,
\* raw, usage, no data field); none has both data and error, or neither.
C16_OutcomeIsSuccessOrFailure ==
    /\ Len(rsResult) <= 1
    /\ rsPc = "done" => Len(rsResult) = 1
    /\ \A i \in 1..Len(rsResult) :
         LET o == rsResult[i]
         IN  /\ ({"data", "raw", "usage"} \subseteq DOMAIN o /\ "error" \notin DOMAIN o)
                 \/ ({"error", "message", "raw", "usage"} \subseteq DOMAIN o
                       /\ "data" \notin DOMAIN o)
             /\ ("data" \in DOMAIN o) # ("error" \in DOMAIN o)

\* C16 witness: a run that returned a Failure carrying issues after an
\* earlier attempt had failed for another reason
C16_Witness ==
    /\ rsPc = "done" /\ Len(rsCalls) >= 2 /\ Len(rsResult) = 1
    /\ rsCalls[1].threw
    /\ "issues" \in DOMAIN rsResult[1]
    /\ "error" \in DOMAIN rsResult[1]

\* The first balanced JSON object or array substring of the text: among the
\* substrings that are JSON documents, the one that starts leftmost (from
\* one opening bracket at most one end balances it); <<>> if there is none
FirstBalanced(text) ==
    LET starts == {i \in 1..Len(text) :
                      \E j \in i..Len(text) : IsJSON(SubSeq(text, i, j))}
    IN  IF starts = {} THEN <<>>
        ELSE LET i == CHOOSE a \in starts : \A b \in starts : a <= b
                 j == CHOOSE e \in i..Len(text) : IsJSON(SubSeq(text, i, e))
             IN  <<SubSeq(text, i, j)>>

\* C17: from the model's text, the value handed to the schema validator is
\* the parse of the first balanced JSON object or array substring; a text
\* holding two separate JSON objects with prose between them yields the
\* first object.
C17_ParsesFirstBalancedJson ==
    pPc = "done" => pParsed = FirstBalanced(pText)

\* What each shape of a response yields, <<>> when it yields no text:
\* the output_text field, ...
TextOfOutputText(resp) ==
    IF resp.output_text = <<>> THEN <<>> ELSE trim(resp.output_text[1])

\* ... the content blocks of the output array (of its first item whose
\* blocks hold text), ...
TextOfContentBlocks(resp) ==
    IF resp.output = <<>> THEN <<>>
    ELSE LET out == resp.output[1]
             S == {k \in 1..Len(out) : /\ out[k].kind = "item" /\ out[k].content # <<>>
                                        /\ ContentText(out[k]) # <<>>}
         IN  IF S = {} THEN <<>>
             ELSE ContentText(out[CHOOSE k \in S : \A l \in S : k <= l])

\* ... an output element that is itself a string (the first non-empty one)
TextOfStringElement(resp) ==
    IF resp.output = <<>> THEN <<>>
    ELSE LET out == resp.output[1]
             S == {k \in 1..Len(out) : out[k].kind = "string" /\ out[k].text # <<>>}
         IN  IF S = {} THEN <<>>
             ELSE out[CHOOSE k \in S : \A l \in S : k <= l].text

\* the text of the first shape, in the fixed order, that yields text
FirstShapeText(resp) ==
    IF TextOfOutputText(resp) # <<>> THEN TextOfOutputText(resp)
    ELSE IF TextOfContentBlocks(resp) # <<>> THEN TextOfContentBlocks(resp)
    ELSE TextOfStringElement(resp)

\* C18: the response text of an attempt is taken from the first shape that
\* yields non-empty text in the fixed order output_text, content blocks of
\* the output array, output element that is itself a string; the attempt
\* fails for lack of text only when none of the shapes present yields text.
C18_TextFromFirstYieldingShape ==
    nPc \in {"text", "no_text"} =>
        IF FirstShapeText(nResp) = <<>>
        THEN nPc = "no_text"
        ELSE nPc = "text" /\ nOutText = <<FirstShapeText(nResp)>>

\* min(500 * 2^(n-1), 5000)
ClaimedDelay(n) == IF 500 * 2^(n - 1) < 5000 THEN 500 * 2^(n - 1) ELSE 5000

\* C19: the delay before retry n (n = 1 .. maxAttempts-1) is
\* min(500 * 2^(n-1), 5000) ms: it starts at 500, doubles each time and never
\* exceeds 5000; no delay is scheduled after a successful attempt or after
\* the final attempt.
C19_BackoffSchedule ==
    /\ \A n \in 1..Len(rsDelays) :
         /\ n <= ClaimedBudget - 1
         /\ rsDelays[n] = ClaimedDelay(n)
         /\ rsDelays[n] <= 5000
         /\ n > 1 => rsDelays[n] \in {2 * rsDelays[n - 1], 5000}
    /\ Len(rsDelays) >= 1 => rsDelays[1] = 500
    \* one delay between two consecutive attempts and nowhere else
    /\ rsPc = "call" => Len(rsDelays) = Len(rsCalls)
    /\ rsPc \in {"backoff", "done"} => Len(rsDelays) = Len(rsCalls) - 1

\* C19 witness: a run that used up a budget of six attempts, the fifth delay
\* being the capped one
C19_Witness ==
    /\ rsPc = "done" /\ rsOpts = <<6>> /\ Len(rsCalls) = 6
    /\ rsDelays = <<500, 1000, 2000, 4000, 5000>>
    /\ "error" \in DOMAIN rsResult[1]

(***************************************************************************)
(* Frame and shape of findMatches                                          *)
(***************************************************************************)
\* C20: findMatches leaves its input URL list and pattern list unchanged;
\* its result contains only elements of the input URL list, each at most
\* once; for an empty URL list the result is empty whatever the patterns
\* and rootOnly are.
C20_FindMatchesFrame ==
    /\ [][mUrls' = mUrls /\ mPatterns' = mPatterns]_vars
    /\ [](mPc = "done" =>
            /\ \A i \in 1..Len(mResult) : InList(mUrls, mResult[i])
            /\ \A i, j \in 1..Len(mResult) : mResult[i] = mResult[j] => i = j
            /\ mUrls = <<>> => mResult = <<>>)

\* C20 witness: the same matching url given twice comes back once
C20_Witness ==
    /\ mPc = "done"
    /\ Len(mUrls) = 2 /\ mUrls[1] = mUrls[2]
    /\ mPatterns # <<>>
    /\ mResult = <<mUrls[1]>>

(***************************************************************************)
(* Claims about the homepage scan                                          *)
(***************************************************************************)
\* C21: the homepage of a site is loaded and scanned only when sitemap
\* resolution followed by pattern matching produced no match for that site;
\* when the sitemap matches are non-empty no homepage navigation happens.
C21_HomepageOnlyWithoutSitemapMatch ==
    (mainPc = "site" /\ (homeSeen # NoHome \/ dPc \in {"scan", "close"}))
        => sitemapMatches = <<>>

\* the lower-cased path of u is a pattern, or a pattern followed by a slash
PathIsPattern(u, patterns) ==
    \E k \in 1..Len(patterns) :
        LET path == toLowerCase(ParseURL(u).pathname)
        IN  path = toLowerCase(patterns[k]) \/ path = toLowerCase(patterns[k]) \o <<"/">>

\* C22: homepage anchors are always matched with root-only semantics,
\* whatever the site's configured rootOnly: with rootOnly=false a homepage
\* anchor whose path merely contains a pattern (/blog/archive for /blog) is
\* never in the site's recorded matches.
C22_HomepageAnchorsRootOnly ==
    \A k \in 1..Len(resLog) :
        "matches" \in DOMAIN allResults[k] =>
            \A i \in 1..Len(resLog[k].home) :
                LET r == ResolveHref(resLog[k].home[i], allResults[k].url)
                IN  (r # <<>> /\ ~PathIsPattern(r[1], allResults[k].patterns))
                        => ~InList(allResults[k].matches, r[1])

\* C22 witness: a site configured with rootOnly=false whose homepage held
\* /blog and /blog/archive and whose recorded matches come from the homepage
C22_Witness ==
    \E k \in 1..Len(resLog) :
        /\ ~configs[resLog[k].site].rootOnly
        /\ resLog[k].sitemap = <<>>
        /\ InList(resLog[k].home, RelBlogArchive)
        /\ "matches" \in DOMAIN allResults[k]
        /\ allResults[k].matches # <<>>

\* the scheme of u is http or https
IsHttpUrl(u) == ParseURL(u).ok /\ ParseURL(u).protocol \in {<<"h","t","t","p",":">>, <<"h","t","t","p","s",":">>}

\* C23: every URL the homepage scan returns has scheme http or https: an
\* anchor whose resolved href has another scheme is discarded before
\* matching and so can never be a homepage match.
C23_HomepageMatchesAreHttp ==
    /\ \A i \in 1..Len(homeMatches) : IsHttpUrl(homeMatches[i])
    /\ \A k \in 1..Len(resLog) :
         \A i \in 1..Len(resLog[k].homepage) : IsHttpUrl(resLog[k].homepage[i])

\* C24: every page opened for a site's homepage scan is closed before that
\* site's processing ends, whether the scan succeeds, returns empty or
\* throws; when the next site starts, no page from an earlier site is open.
C24_NoPageLeftOpen ==
    /\ pagesOpen \in {0, 1}
    /\ pagesOpen = 1 => mainPc = "site" /\ dPc \in {"scan", "close"}
    /\ (mainPc = "site" /\ dPc = "return") => pagesOpen = 0
    /\ mainPc \in {"loop", "done", "crashed"} => pagesOpen = 0

\* C24 witness: a second site is about to start after a site whose page.goto
\* threw, and a page had been opened for it
C24_Witness ==
    /\ mainPc = "loop" /\ siteIdx = 2 /\ siteIdx <= Len(configs)
    /\ Len(resLog) = 1
    /\ homeSeen.kind = "throw"
    /\ pagesOpen = 0

(***************************************************************************)
(* Claims about the state kept between sites                               *)
(***************************************************************************)
\* C25: the visited set is created empty for each site and is not carried
\* to the next one: a sitemap URL fetched while resolving site A is fetched
\* again if it is referenced while resolving site B.
C25_VisitedIsPerSite ==
    /\ mainPc = "site" =>
          \A v \in visited :
              \E j \in 1..Len(fetchLog) : fetchLog[j].site = siteIdx /\ fetchLog[j].url = v
    /\ \A k \in 1..Len(resLog) :
          \A c \in Range(getSitemapCandidates(allResults[k].url)) :
              \E j \in 1..Len(fetchLog) :
                  fetchLog[j].site = resLog[k].site /\ fetchLog[j].url = NewURL(c).href

\* C25 witness: two sites of the same origin were resolved, and a sitemap
\* URL fetched for the first was fetched again for the second
C25_Witness ==
    /\ Len(resLog) = 2
    /\ allResults[1].url = allResults[2].url
    /\ \E i, j \in 1..Len(fetchLog) :
         /\ fetchLog[i].site = resLog[1].site /\ fetchLog[j].site = resLog[2].site
         /\ fetchLog[i].site # fetchLog[j].site
         /\ fetchLog[i].url = fetchLog[j].url
         /\ fetchLog[i].ans.kind = "text"

(***************************************************************************)
(* Claims about the error of a failed requestStructured                    *)
(***************************************************************************)
\* the last service call made
LastCall == rsCalls[Len(rsCalls)]

LastAttemptFailed ==
    /\ rsCalls # <<>> /\ rsErr # <<>>
    /\ ~(rsPc = "done" /\ "data" \in DOMAIN rsResult[1])

\* C27: within one attempt the checks run in the order text recovery, JSON
\* extraction and parse, schema validation: an attempt with no recoverable
\* text or with text that does not parse is classified parse_failed and the
\* schema validator is not invoked on it; only a value that parsed and
\* failed the schema is classified validation_failed, and that error
\* carries the validator's issue list.
C27_ChecksRunInOrder ==
    LastAttemptFailed =>
        LET ran == attemptFn(LastCall).ran
            err == rsErr[1]
        IN  /\ ran = SubSeq(<<"text", "parse", "validate">>, 1, Len(ran))
            /\ (~LastCall.threw /\ LastCall.text.class \in {"none", "syntax"}) =>
                  /\ err.code = "parse_failed"
                  /\ ~InList(ran, "validate")
            /\ err.code = "validation_failed" =>
                  /\ ~LastCall.threw
                  /\ LastCall.text.class = "invalid"
                  /\ InList(ran, "validate")
                  /\ err.issues # <<>>

\* C27 witness: an attempt without text, then one whose text is not JSON,
\* then one the schema rejected
C27_Witness ==
    /\ rsPc = "done" /\ Len(rsCalls) = 3
    /\ \A i \in 1..3 : ~rsCalls[i].threw
    /\ rsCalls[1].text.class = "none"
    /\ rsCalls[2].text.class = "syntax"
    /\ rsCalls[3].text.class = "invalid"
    /\ rsErr[1].code = "validation_failed"

(***************************************************************************)
(* Claims about the post-extraction stages                                 *)
(***************************************************************************)
\* C28: in the post-extraction stages, the page opened for a blog URL is
\* closed before the next blog URL is processed, on the error path
\* (navigation failure or timeout, page evaluation failure) as well as on
\* the success path, so the number of open pages never grows across
\* iterations.
C28_PageClosedBeforeNextBlogUrl ==
    /\ xPc = "next" => xPagesOpen = 0
    /\ xPagesOpen <= 1

(***************************************************************************)
(* Claims about the discovery results array                                *)
(***************************************************************************)
\* C29: every entry appended to the discovery results array has url and
\* patterns and exactly one of matches (a list) or error (a message): a
\* site that was processed without exception has matches and no error, a
\* site whose processing threw has error and no matches; entries appear in
\* the order the sites were configured.
C29_EntriesHaveMatchesOrError ==
    /\ Len(allResults) = Len(resLog)
    /\ \A k \in 1..Len(allResults) :
         LET e == allResults[k]
         IN  /\ {"url", "patterns"} \subseteq DOMAIN e
             /\ e.patterns = PatternsOf(configs[resLog[k].site])
             /\ ("matches" \in DOMAIN e) # ("error" \in DOMAIN e)
             /\ resLog[k].raised <=> "error" \in DOMAIN e
             /\ ~resLog[k].raised <=> "matches" \in DOMAIN e
    /\ \A j, k \in 1..Len(resLog) : j < k => resLog[j].site < resLog[k].site

\* C29 witness: the run is over with two entries, one of a site that was
\* processed and one of a site whose processing threw
C29_Witness ==
    /\ mainPc = "done" /\ Len(allResults) = 2
    /\ \E j, k \in 1..2 :
         /\ "matches" \in DOMAIN allResults[j] /\ allResults[j].matches # <<>>
         /\ "error" \in DOMAIN allResults[k]

(***************************************************************************)
(* Claims about findMatches on hrefs that do not parse                     *)
(***************************************************************************)
\* the href up to its first "?" and its first "#", in lower case
StrippedHref(u) == toLowerCase(splitFirst(splitFirst(u, "?"), "#"))

\* C30: a URL string that cannot be parsed is still considered by
\* findMatches, and in both modes the patterns are compared with the href
\* without its query and fragment: it is returned exactly when some pattern
\* ends (rootOnly) or occurs in (not rootOnly) the stripped href, so a
\* pattern found only in the query or fragment does not make it match.
C30_UnparsedComparedOnStrippedHref ==
    mPc = "done" =>
        \A i \in 1..Len(mUrls) :
            ~ParseURL(mUrls[i]).ok =>
                (InList(mResult, mUrls[i]) <=>
                    \E k \in 1..Len(mPatterns) :
                        LET normPat == toLowerCase(mPatterns[k])
                            pth == StrippedHref(mUrls[i])
                        IN  IF mRootOnly
                            THEN endsWith(pth, normPat) \/ endsWith(pth, normPat \o <<"/">>)
                            ELSE includes(pth, normPat))

====
